---- MODULE Spec2Model ----
(***************************************************************************)
(* Face extraction pipeline of FaceSwap                                    *)
(* (src/implementation/Preprocessor/FaceExtractor.py).                     *)
(*                                                                         *)
(* Conventions of the model                                                *)
(*  - A point is a pair <<x, y>> (the source's "W,H" order).  A landmark   *)
(*    dictionary is a record [den, pts]: pts maps each facial feature to   *)
(*    its list of points and every coordinate stands for the rational      *)
(*    number  numerator / den.  The detector and the video filter produce  *)
(*    integers (den = 1); the rotation produces non-integers.  Real        *)
(*    arithmetic is exact in the model (IEEE rounding is not modelled).    *)
(*  - An image is a record [H, W, px]; px maps <<row, col>> to the pixel.  *)
(*    A pixel is one number standing for each of the colour channels: all  *)
(*    operations of the pipeline treat the channels alike.                 *)
(*  - A Python exception is a result record [tag |-> "raise", ...].        *)
(***************************************************************************)
EXTENDS Integers, Sequences, FiniteSets, TLC

VARIABLES
    extractor,    \* the FaceExtractor object: its stages' attributes, old_state among them
    last,         \* the last call of FaceExtractor.__call__: its input, its locals, its outcome
    prev,         \* single-image mode: an earlier call of the extractor, kept for comparison
    detected,     \* video mode: what the detector returned at the latest successful detection
    crop,         \* a direct call of a crop stage: its input and, once made, its result
    store,        \* the old_state attributes of the LandmarksExtractor objects of the streams
    stream_hits,  \* per stream, what the detector returned at its latest successful detection
    stream_last,  \* the last call of a stream's LandmarksExtractor: its input and its result
    unit,         \* a direct call of one function: its arguments and, once made, its result
    scene         \* the last use of an extraction by a caller: its input and its outcome

vars == <<extractor, last, prev, detected, crop, store, stream_hits, stream_last, unit, scene>>

\* Python's None, and a value that is not None: every variable, field or result
\* that can be None holds None or Some(v) in the model
None == <<>>

Some(v) == <<v>>

Get(o) == o[1]

----------------------------------------------------------------------------
(* Arithmetic helpers                                                      *)

Abs(x) == IF x < 0 THEN -x ELSE x

Max(a, b) == IF a >= b THEN a ELSE b

Min(a, b) == IF a <= b THEN a ELSE b

\* floor(a / b) for b > 0 (np.floor of an exact quotient)
FloorDiv(a, b) == a \div b

\* Python int(): truncation towards zero of a / b, b > 0
TruncDiv(a, b) == IF a >= 0 THEN a \div b ELSE -((-a) \div b)

RECURSIVE SumSeq(_)
SumSeq(s) == IF s = <<>> THEN 0 ELSE Head(s) + SumSeq(Tail(s))

Range(s) == {s[i] : i \in 1..Len(s)}

\* np.max and np.min of a non-empty list
MaxSeq(s) == CHOOSE m \in Range(s) : \A x \in Range(s) : m >= x

MinSeq(s) == CHOOSE m \in Range(s) : \A x \in Range(s) : m <= x

RECURSIVE Concat(_)
Concat(ss) == IF ss = <<>> THEN <<>> ELSE Head(ss) \o Concat(Tail(ss))

\* floor(sqrt(n)) for n >= 0
RECURSIVE ISqrtFrom(_, _)
ISqrtFrom(n, k) == IF (k + 1) * (k + 1) > n THEN k ELSE ISqrtFrom(n, k + 1)

ISqrt(n) == ISqrtFrom(n, 0)

\* u / p <= sqrt(d2), for u >= 0, p > 0, d2 >= 0, without forming u*u or d2*p*p
LeqScaledSqrt(u, p, d2) ==
    LET a == u \div p
        b == u % p
    IN  IF b = 0 THEN a * a <= d2
        ELSE IF (a + 1) * (a + 1) <= d2 THEN TRUE
        ELSE IF a * a > d2 THEN FALSE
        ELSE 2 * a * b * p + b * b <= (d2 - a * a) * p * p

\* floor(sqrt(d2) * p / m) for p >= 0, m > 0: the largest k with k*m/p <= sqrt(d2)
RECURSIVE FloorScaledSqrtFrom(_, _, _, _)
FloorScaledSqrtFrom(d2, p, m, k) ==
    IF LeqScaledSqrt((k + 1) * m, p, d2) THEN FloorScaledSqrtFrom(d2, p, m, k + 1) ELSE k

\* A variant of FloorScaledSqrt that rounds up instead of down
CeilScaledSqrt(d2, p, m) == IF p = 0 THEN 0 ELSE FloorScaledSqrtFrom(d2, p, m, 0) + 1

FloorScaledSqrt(d2, p, m) == IF p = 0 THEN 0 ELSE FloorScaledSqrtFrom(d2, p, m, 0)

----------------------------------------------------------------------------
(* Landmark dictionaries                                                   *)

facial_features ==
    <<"chin", "left_eyebrow", "right_eyebrow", "nose_bridge", "nose_tip",
      "left_eye", "right_eye", "top_lip", "bottom_lip">>

Features == {facial_features[i] : i \in 1..Len(facial_features)}

\* The keys of a dictionary in the order of their insertion: the detector
\* inserts the groups in the order of facial_features, and a dictionary built
\* otherwise records its order in the field keys
KeysOf(landmarks_dict) ==
    IF "keys" \in DOMAIN landmarks_dict THEN landmarks_dict.keys ELSE facial_features

\* list_landmarks: the points of the groups, in the order of landmarks_dict.values()
list_landmarks(landmarks_dict) ==
    Concat([i \in 1..Len(KeysOf(landmarks_dict)) |->
              landmarks_dict.pts[KeysOf(landmarks_dict)[i]]])

\* A variant of Slice that leaves out the last point of every slice
SliceShort(landmarks_list, a, b) ==
    SubSeq(landmarks_list, Min(a, Len(landmarks_list)) + 1, Min(b, Len(landmarks_list)) - 1)

\* landmarks_list[a:b]: a slice ends where the list ends
Slice(landmarks_list, a, b) ==
    SubSeq(landmarks_list, Min(a, Len(landmarks_list)) + 1, Min(b, Len(landmarks_list)))

\* dict_landmarks: the nine slices of the list, the keys inserted in this order
dict_landmarks(landmarks_list) ==
    [den |-> 1,
     pts |-> [chin |-> Slice(landmarks_list, 0, 17),
              left_eyebrow |-> Slice(landmarks_list, 17, 22),
              right_eyebrow |-> Slice(landmarks_list, 22, 27),
              nose_bridge |-> Slice(landmarks_list, 27, 31),
              nose_tip |-> Slice(landmarks_list, 31, 36),
              left_eye |-> Slice(landmarks_list, 36, 42),
              right_eye |-> Slice(landmarks_list, 42, 48),
              top_lip |-> Slice(landmarks_list, 48, 60),
              bottom_lip |-> Slice(landmarks_list, 60, 72)]]

\* landmarks_X[:, i], landmarks_Y[:, i] for the indices i of a list: numpy raises
\* IndexError for an index past the end.  A point is <<x, y, n>>, standing for
\* (x / n, y / n).
TakePoints(landmarks_list, indices) ==
    IF \E k \in 1..Len(indices) : indices[k] >= Len(landmarks_list)
    THEN [tag |-> "raise", error |-> "IndexError"]
    ELSE [tag |-> "ok",
          points |-> [k \in 1..Len(indices) |->
                        <<landmarks_list[indices[k] + 1][1], landmarks_list[indices[k] + 1][2], 1>>]]

\* np.mean(landmarks_X[:, a:b], axis=1), np.mean(landmarks_Y[:, a:b], axis=1): the
\* mean of a slice, nan (n = 0) when the slice is empty
MeanPoint(landmarks_list, a, b) ==
    <<SumSeq([i \in 1..Len(Slice(landmarks_list, a, b)) |-> Slice(landmarks_list, a, b)[i][1]]),
      SumSeq([i \in 1..Len(Slice(landmarks_list, a, b)) |-> Slice(landmarks_list, a, b)[i][2]]),
      Len(Slice(landmarks_list, a, b))>>

\* The points of a slice a:b, each for itself
SlicePoints(landmarks_list, a, b) ==
    [i \in 1..Len(Slice(landmarks_list, a, b)) |->
       <<Slice(landmarks_list, a, b)[i][1], Slice(landmarks_list, a, b)[i][2], 1>>]

\* extract_5_landmarks: eye left, eye right, nose, mouth left, mouth right
extract_5_landmarks(landmarks_list) ==
    LET single == TakePoints(landmarks_list, <<48, 60>>)
    IN  IF single.tag = "raise" THEN single
        ELSE [tag |-> "ok",
              points |-> <<MeanPoint(landmarks_list, 36, 42), MeanPoint(landmarks_list, 42, 48),
                           MeanPoint(landmarks_list, 31, 36)>> \o single.points]

\* extract_10_landmarks: the five, then mouth top and bottom, chin, face left and right
extract_10_landmarks(landmarks_list) ==
    LET single == TakePoints(landmarks_list, <<48, 60, 51, 63, 8, 2, 14>>)
    IN  IF single.tag = "raise" THEN single
        ELSE [tag |-> "ok",
              points |-> <<MeanPoint(landmarks_list, 36, 42), MeanPoint(landmarks_list, 42, 48),
                           MeanPoint(landmarks_list, 31, 36)>> \o single.points]

\* extract_28_landmarks: right eye, left eye, face contour 0:17:4, nose, mouth
extract_28_landmarks(landmarks_list) ==
    LET mouth == TakePoints(landmarks_list, <<48, 50, 52, 56, 58, 60, 62, 64, 68, 70>>)
    IN  IF mouth.tag = "raise" THEN mouth
        ELSE [tag |-> "ok",
              points |-> SlicePoints(landmarks_list, 42, 48) \o SlicePoints(landmarks_list, 36, 42)
                         \o SlicePoints(landmarks_list, 0, 1) \o SlicePoints(landmarks_list, 4, 5)
                         \o SlicePoints(landmarks_list, 8, 9) \o SlicePoints(landmarks_list, 12, 13)
                         \o SlicePoints(landmarks_list, 16, 17)
                         \o <<MeanPoint(landmarks_list, 31, 36)>> \o mouth.points]

\* extract_landmarks(landmarks_array, n)
extract_landmarks(landmarks_list, n) ==
    IF n = 5 THEN extract_5_landmarks(landmarks_list)
    ELSE IF n = 10 THEN extract_10_landmarks(landmarks_list)
    ELSE IF n = 28 THEN extract_28_landmarks(landmarks_list)
    ELSE [tag |-> "raise", error |-> "NotImplementedError"]

\* normalize_landmarks: np.array(landmarks) / size_fine, reshaped to one row; the
\* numbers are over den * size_fine, and a division by 0 gives inf or nan
normalize_landmarks(extracted_information) ==
    [den |-> Get(extracted_information.landmarks).den * Get(extracted_information.size_fine),
     values |-> Concat([i \in 1..Len(Get(extracted_information.landmarks).list) |->
                          Get(extracted_information.landmarks).list[i]])]

RECURSIVE Gcd(_, _)
Gcd(a, b) == IF b = 0 THEN Abs(a) ELSE Gcd(Abs(b), Abs(a) % Abs(b))

\* The greatest divisor of g that divides every number of the set
GcdSet(S, g) ==
    LET D == {d \in 1..g : g % d = 0 /\ \A x \in S : x % d = 0}
    IN  CHOOSE m \in D : \A d \in D : m >= d

\* The same numbers over the smallest common denominator: equal coordinates
\* have equal representations
Reduce(landmarks_dict) ==
    LET l == Concat([i \in 1..Len(facial_features) |-> landmarks_dict.pts[facial_features[i]]])
        g == IF landmarks_dict.den = 1 THEN 1
             ELSE GcdSet({Abs(l[i][1]) : i \in 1..Len(l)} \cup {Abs(l[i][2]) : i \in 1..Len(l)},
                         landmarks_dict.den)
    IN  IF g = 1 THEN landmarks_dict
        ELSE [den |-> landmarks_dict.den \div g,
              pts |-> [f \in Features |->
                         [i \in 1..Len(landmarks_dict.pts[f]) |->
                            <<landmarks_dict.pts[f][i][1] \div g,
                              landmarks_dict.pts[f][i][2] \div g>>]]]

\* The transformations handed to update_landmarks, applied to the point p whose
\* coordinates are over the denominator den; the result is over den * TransDen(t).
\*   shift: lambda x: x - np.array([dx, dy])            (both crop stages)
\*   affine: lambda x: np.dot(R, np.array(x + (1,)))    (FaceAligner); R is
\*       [[c, s, tx], [-s, c, ty]] / q  with integers c, s, tx, ty over q
\*   video: lambda x: (int(x[0] * 2 - mean_y), int(x[1] * 2 - mean_x));
\*       mean_x2 and mean_y2 are twice the means, over den
TransDen(t) == IF t.kind = "affine" THEN t.q ELSE 1

Transform(t, p, den) ==
    CASE t.kind = "shift" -> <<p[1] - t.dx * den, p[2] - t.dy * den>>
      [] t.kind = "affine" ->
            <<t.c * p[1] + t.s * p[2] + t.tx * den,
              t.c * p[2] - t.s * p[1] + t.ty * den>>
      [] t.kind = "video" ->
            <<TruncDiv(4 * p[1] - t.mean_y2, 2 * den) * den,
              TruncDiv(4 * p[2] - t.mean_x2, 2 * den) * den>>

\* A variant of update_landmarks that fills every new list from its end
update_landmarks_reversed(landmarks_dict, transformation) ==
    Reduce([den |-> landmarks_dict.den * TransDen(transformation),
            pts |-> [f \in Features |->
                       [i \in 1..Len(landmarks_dict.pts[f]) |->
                          Transform(transformation,
                                    landmarks_dict.pts[f][Len(landmarks_dict.pts[f]) + 1 - i],
                                    landmarks_dict.den)]]])

\* update_landmarks: every group of the dictionary is rebound to a new list of
\* the transformed points, in the same order
update_landmarks(landmarks_dict, transformation) ==
    Reduce([den |-> landmarks_dict.den * TransDen(transformation),
            pts |-> [f \in Features |->
                       [i \in 1..Len(landmarks_dict.pts[f]) |->
                          Transform(transformation, landmarks_dict.pts[f][i],
                                    landmarks_dict.den)]]])

Xs(points) == [i \in 1..Len(points) |-> points[i][1]]

Ys(points) == [i \in 1..Len(points) |-> points[i][2]]

----------------------------------------------------------------------------
(* Images and numpy slices                                                 *)

Pixels(h, w) == (0..(h - 1)) \X (0..(w - 1))

\* A variant of zeros that fills the canvas with ones, as np.ones would
ones(h, w) == [H |-> h, W |-> w, px |-> [p \in Pixels(h, w) |-> 1]]

\* np.zeros((h, w, channels), dtype=np.uint8)
zeros(h, w) == [H |-> h, W |-> w, px |-> [p \in Pixels(h, w) |-> 0]]

\* The indices a Python slice lo:hi selects on an axis of length n: a negative
\* bound counts from the end, and both bounds are clamped to the axis
SliceStart(lo, n) == IF lo < 0 THEN Max(lo + n, 0) ELSE Min(lo, n)

SliceLen(lo, hi, n) == Max(SliceStart(hi, n) - SliceStart(lo, n), 0)

\* numpy broadcasting of a source axis of length s onto a target axis of length d
Broadcasts(s, d) == s = d \/ s = 1

BoundingBox(l, r, t, b) == [left |-> l, right |-> r, top |-> t, bottom |-> b]

\* cropped_image = np.zeros((size, size, C)); cropped_image[offsets.top:offsets.bottom,
\* offsets.left:offsets.right] = image[bounding_box.top:bounding_box.bottom,
\* bounding_box.left:bounding_box.right]
apply_crop(image, bounding_box, offsets, size) ==
    IF size < 0 THEN [tag |-> "raise", error |-> "ValueError"]     \* np.zeros: negative dimensions
    ELSE
    LET dr0 == SliceStart(offsets.top, size)
        drn == SliceLen(offsets.top, offsets.bottom, size)
        dc0 == SliceStart(offsets.left, size)
        dcn == SliceLen(offsets.left, offsets.right, size)
        sr0 == SliceStart(bounding_box.top, image.H)
        srn == SliceLen(bounding_box.top, bounding_box.bottom, image.H)
        sc0 == SliceStart(bounding_box.left, image.W)
        scn == SliceLen(bounding_box.left, bounding_box.right, image.W)
    IN  IF ~(Broadcasts(srn, drn) /\ Broadcasts(scn, dcn)) THEN [tag |-> "raise", error |-> "ValueError"]
        ELSE [tag |-> "ok",
              image |->
                [H |-> size, W |-> size,
                 px |-> [p \in Pixels(size, size) |->
                           IF /\ dr0 <= p[1] /\ p[1] < dr0 + drn
                              /\ dc0 <= p[2] /\ p[2] < dc0 + dcn
                           THEN image.px[<<sr0 + (IF srn = drn THEN p[1] - dr0 ELSE 0),
                                           sc0 + (IF scn = dcn THEN p[2] - dc0 ELSE 0)>>]
                           ELSE zeros(size, size).px[p]]]]

----------------------------------------------------------------------------
(* Clipping a box side to the image: <<the side's coordinate, its offset>>  *)

\* top, dtop = (top, 0) if (top >= 0) else (0, -top); the same for left
ClipLow(v) == IF v >= 0 THEN <<v, 0>> ELSE <<0, -v>>

\* coarse: bottom, dbottom = (bottom, size) if (H >= bottom) else (H, (H + size - bottom))
ClipHighCoarse(v, limit, size) == IF limit >= v THEN <<v, size>> ELSE <<limit, limit + size - v>>

\* A variant of ClipHighFine that clips the side and leaves its offset at 0
ClipHighFineNoOffset(v, limit) == <<Min(v, limit), 0>>

\* fine: bottom, dbottom = (bottom, 0) if (H >= bottom) else (H, (H - bottom))
ClipHighFine(v, limit) == IF limit >= v THEN <<v, 0>> ELSE <<limit, limit - v>>

----------------------------------------------------------------------------
(* FaceCropperCoarse; margin is the pair <<numerator, denominator>>         *)

apply_coarse_crop(image, bounding_box, offsets, size) ==
    apply_crop(image, bounding_box, offsets, size)

\* max(dist) * n * den, squared: dist = np.linalg.norm(landmarks_list - center, axis=1)
MaxDist2(l, n, sx, sy) ==
    MaxSeq([i \in 1..Len(l) |->
              (n * l[i][1] - sx) * (n * l[i][1] - sx) + (n * l[i][2] - sy) * (n * l[i][2] - sy)])

calculate_coarse_bounding_box(image, landmarks_dict, margin) ==
    LET H == image.H
        W == image.W
        landmarks_list == list_landmarks(landmarks_dict)
        n == Len(landmarks_list)
        sx == SumSeq(Xs(landmarks_list))
        sy == SumSeq(Ys(landmarks_list))
        nd == n * landmarks_dict.den            \* center = (sx / nd, sy / nd)
        d2 == MaxDist2(landmarks_list, n, sx, sy)
        p == margin[2] + margin[1]              \* 1 + margin = p / margin[2]
        \* int(max(dist) * (1 + self.margin)): truncation towards zero
        half == IF p >= 0 THEN FloorScaledSqrt(d2, p, nd * margin[2])
                ELSE -FloorScaledSqrt(d2, -p, nd * margin[2])
        size == half * 2
        top0 == FloorDiv(sy, nd) - half
        bottom0 == FloorDiv(sy, nd) + half
        left0 == FloorDiv(sx, nd) - half
        right0 == FloorDiv(sx, nd) + half
        top == ClipLow(top0)
        bottom == ClipHighCoarse(bottom0, H, size)
        left == ClipLow(left0)
        right == ClipHighCoarse(right0, W, size)
    IN  [bounding_box |-> BoundingBox(left[1], right[1], top[1], bottom[1]),
         offsets |-> BoundingBox(left[2], right[2], top[2], bottom[2]),
         size |-> size,
         requested |-> BoundingBox(left0, right0, top0, bottom0)]

\* A variant of ShiftOf that leaves the offsets out
ShiftOfBoxOnly(bounding_box, offsets) ==
    [kind |-> "shift", dx |-> bounding_box.left, dy |-> bounding_box.top]

\* The linear coordinate shift both crop stages hand to update_landmarks
ShiftOf(bounding_box, offsets) ==
    [kind |-> "shift", dx |-> bounding_box.left - offsets.left,
     dy |-> bounding_box.top - offsets.top]

\* FaceCropperCoarse.__call__: the landmarks are updated after the crop, so a
\* crop that raises leaves them as they were
FaceCropperCoarse(image, landmarks_dict, margin) ==
    LET b == calculate_coarse_bounding_box(image, landmarks_dict, margin)
        c == apply_coarse_crop(image, b.bounding_box, b.offsets, b.size)
    IN  IF c.tag = "raise"
        THEN [tag |-> "raise", error |-> c.error, bounding_box |-> b.bounding_box,
              offsets |-> b.offsets, size |-> b.size, requested |-> b.requested,
              landmarks |-> landmarks_dict]
        ELSE [tag |-> "ok", cropped_image |-> c.image, bounding_box |-> b.bounding_box,
              offsets |-> b.offsets, size |-> b.size, requested |-> b.requested,
              landmarks |-> update_landmarks(landmarks_dict,
                                             ShiftOf(b.bounding_box, b.offsets))]

----------------------------------------------------------------------------
(* FaceCropperFine                                                         *)

apply_fine_crop(image, bounding_box, offsets, size) ==
    apply_crop(image, bounding_box, offsets, size)

calculate_fine_bounding_box(image, landmarks_dict, margin) ==
    LET H == image.H
        W == image.W
        landmarks_list == list_landmarks(landmarks_dict)
        den == landmarks_dict.den
        q == den * margin[2]
        \* int(np.floor(min - W * margin)), ..., int(np.floor(max + H * margin))
        left0 == FloorDiv(MinSeq(Xs(landmarks_list)) * margin[2] - W * margin[1] * den, q)
        top0 == FloorDiv(MinSeq(Ys(landmarks_list)) * margin[2] - H * margin[1] * den, q)
        right0 == FloorDiv(MaxSeq(Xs(landmarks_list)) * margin[2] + W * margin[1] * den, q)
        bottom0 == FloorDiv(MaxSeq(Ys(landmarks_list)) * margin[2] + H * margin[1] * den, q)
        bbH == bottom0 - top0
        bbW == right0 - left0
        size == Max(bbH, bbW)
        dH == IF bbH < bbW THEN (bbW - bbH) \div 2 ELSE 0
        \* the source's second branch repeats the first condition (elif bbH < bbW),
        \* so it is never taken and dW stays 0
        dW == IF bbH < bbW THEN 0 ELSE IF bbH < bbW THEN (bbH - bbW) \div 2 ELSE 0
        top == ClipLow(top0)
        bottom == ClipHighFine(bottom0, H)
        left == ClipLow(left0)
        right == ClipHighFine(right0, W)
    IN  [bounding_box |-> BoundingBox(left[1], right[1], top[1], bottom[1]),
         offsets |-> BoundingBox(dW + left[2], dW + bbW + right[2],
                                 dH + top[2], dH + bbH + bottom[2]),
         size |-> size,
         requested |-> BoundingBox(left0, right0, top0, bottom0)]

FaceCropperFine(image, landmarks_dict, margin) ==
    LET b == calculate_fine_bounding_box(image, landmarks_dict, margin)
        c == apply_fine_crop(image, b.bounding_box, b.offsets, b.size)
    IN  IF c.tag = "raise"
        THEN [tag |-> "raise", error |-> c.error, bounding_box |-> b.bounding_box,
              offsets |-> b.offsets, size |-> b.size, requested |-> b.requested,
              landmarks |-> landmarks_dict]
        ELSE [tag |-> "ok", cropped_image |-> c.image, bounding_box |-> b.bounding_box,
              offsets |-> b.offsets, size |-> b.size, requested |-> b.requested,
              landmarks |-> update_landmarks(landmarks_dict,
                                             ShiftOf(b.bounding_box, b.offsets))]

----------------------------------------------------------------------------
(* FaceMasker (sharp_edge = True)                                          *)

Orient(a, b, c) == (b[1] - a[1]) * (c[2] - a[2]) - (b[2] - a[2]) * (c[1] - a[1])

\* cv2.fillConvexPoly(mask, cv2.convexHull(points), 1): the pixels <<row, col>> of
\* an h x w image whose centre lies in the closed convex hull of the points
\* (coordinates over den).  E holds the directed pairs of points that have every
\* point on their left or on their line: the hull's edges, or every pair when
\* the points are collinear.
HullPixels(points, den, h, w) ==
    LET P == Range(points)
        E == {e \in P \X P : e[1] # e[2] /\ \A c \in P : Orient(e[1], e[2], c) >= 0}
        xmin == MinSeq(Xs(points))
        xmax == MaxSeq(Xs(points))
        ymin == MinSeq(Ys(points))
        ymax == MaxSeq(Ys(points))
    IN  {p \in Pixels(h, w) :
           /\ xmin <= p[2] * den /\ p[2] * den <= xmax
           /\ ymin <= p[1] * den /\ p[1] * den <= ymax
           /\ \A e \in E : Orient(e[1], e[2], <<p[2] * den, p[1] * den>>) >= 0}

\* k_size = int(abs(self.morphing) / 100 * H), made odd
\* A variant of KernelSize that adds one to an odd size instead of an even one
KernelSizeEven(morphing, H) ==
    LET k_size == (Abs(morphing) * H) \div 100
    IN  IF k_size % 2 = 0 THEN k_size ELSE k_size + 1

KernelSize(morphing, H) ==
    LET k_size == (Abs(morphing) * H) \div 100
    IN  IF k_size % 2 = 1 THEN k_size ELSE k_size + 1

\* A variant of CrossKernel with every cell of the k x k square
SquareKernel(k) == ((-(k \div 2))..(k \div 2)) \X ((-(k \div 2))..(k \div 2))

\* cv2.getStructuringElement(cv2.MORPH_CROSS, (k, k)): the offsets of its cells
\* from the anchor at its centre
CrossKernel(k) ==
    {<<d, 0>> : d \in (-(k \div 2))..(k \div 2)} \cup {<<0, d>> : d \in (-(k \div 2))..(k \div 2)}

\* cv2.morphologyEx: dilation sets a pixel when the kernel meets the set; erosion
\* keeps it when every kernel cell inside the image is in the set
Morph(filled, kernel, dilate, h, w) ==
    IF dilate
    THEN {p \in Pixels(h, w) : \E d \in kernel : <<p[1] + d[1], p[2] + d[2]>> \in filled}
    ELSE {p \in Pixels(h, w) :
            \A d \in kernel : <<p[1] + d[1], p[2] + d[2]>> \in Pixels(h, w)
                                => <<p[1] + d[1], p[2] + d[2]>> \in filled}

\* A variant of IsDilate with the two operations exchanged
IsDilateWhenNegative(morphing) == morphing < 0

\* operation = cv2.MORPH_DILATE if self.morphing > 0 else cv2.MORPH_ERODE
IsDilate(morphing) == morphing > 0

calculate_mask(image, landmarks_dict, morphing) ==
    LET H == image.H
        W == image.W
        filled == HullPixels(list_landmarks(landmarks_dict), landmarks_dict.den, H, W)
        k_size == KernelSize(morphing, H)
        on == IF k_size = 1 THEN filled
              ELSE Morph(filled, CrossKernel(k_size), IsDilate(morphing), H, W)
    \* mask = np.zeros((H, W), dtype='float')
    IN  [dtype |-> "float64", H |-> H, W |-> W,
         px |-> [p \in Pixels(H, W) |-> IF p \in on THEN 1 ELSE 0]]

\* masked_image = (mask[:, :, None] * image).astype(np.uint8)
apply_mask(image, mask) ==
    [H |-> image.H, W |-> image.W,
     px |-> [p \in Pixels(image.H, image.W) |-> mask.px[p] * image.px[p]]]

FaceMasker(image, landmarks_dict, morphing) ==
    LET mask == calculate_mask(image, landmarks_dict, morphing)
    IN  [masked_image |-> apply_mask(image, mask), mask |-> mask]

----------------------------------------------------------------------------
(* FaceAligner                                                             *)
(* The eye vector (dx, dy) has the direction of the integer vector         *)
(* <<c, s>> of length n, so cos(angle) = c / n and sin(angle) = s / n.     *)
(* The detections of the model have eye vectors of integer length.         *)

\* A variant of calculate_rotation with the arguments of arctan2 exchanged
calculate_rotation_swapped(landmarks_dict) ==
    LET re == landmarks_dict.pts["right_eye"]
        le == landmarks_dict.pts["left_eye"]
        DX == SumSeq(Xs(re)) * Len(le) - SumSeq(Xs(le)) * Len(re)
        DY == SumSeq(Ys(re)) * Len(le) - SumSeq(Ys(le)) * Len(re)
        g == Gcd(DX, DY)
        landmarks_list == list_landmarks(landmarks_dict)
    IN  [angle |-> IF g = 0 THEN [c |-> 1, s |-> 0, n |-> 1]
                   ELSE [c |-> DY \div g, s |-> DX \div g,
                         n |-> ISqrt((DX \div g) * (DX \div g) + (DY \div g) * (DY \div g))],
         center |-> [sx |-> SumSeq(Xs(landmarks_list)), sy |-> SumSeq(Ys(landmarks_list)),
                     nd |-> Len(landmarks_list) * landmarks_dict.den]]

calculate_rotation(landmarks_dict) ==
    LET re == landmarks_dict.pts["right_eye"]
        le == landmarks_dict.pts["left_eye"]
        \* center_right_eye - center_left_eye, times Len(re) * Len(le) * den
        DX == SumSeq(Xs(re)) * Len(le) - SumSeq(Xs(le)) * Len(re)
        DY == SumSeq(Ys(re)) * Len(le) - SumSeq(Ys(le)) * Len(re)
        g == Gcd(DX, DY)
        landmarks_list == list_landmarks(landmarks_dict)
    IN  [angle |-> IF g = 0 THEN [c |-> 1, s |-> 0, n |-> 1]     \* arctan2(0, 0) = 0
                   ELSE [c |-> DX \div g, s |-> DY \div g,
                         n |-> ISqrt((DX \div g) * (DX \div g) + (DY \div g) * (DY \div g))],
         \* center = np.mean(list_landmarks(landmarks_dict), axis=0) = <<sx, sy>> / nd
         center |-> [sx |-> SumSeq(Xs(landmarks_list)), sy |-> SumSeq(Ys(landmarks_list)),
                     nd |-> Len(landmarks_list) * landmarks_dict.den]]

\* R = cv2.getRotationMatrix2D(rotation.center, rotation.angle, 1.0)
\*   = [[a, b, (1 - a) * cx - b * cy], [-b, a, b * cx + (1 - a) * cy]],
\* a = cos(angle), b = sin(angle); as integers over q
getRotationMatrix2D(rotation) ==
    LET a == rotation.angle
        ctr == rotation.center
    IN  [kind |-> "affine", c |-> a.c * ctr.nd, s |-> a.s * ctr.nd,
         tx |-> (a.n - a.c) * ctr.sx - a.s * ctr.sy,
         ty |-> a.s * ctr.sx + (a.n - a.c) * ctr.sy,
         q |-> a.n * ctr.nd,
         \* the rotation itself, for the inverse map of cv2.warpAffine
         ic |-> a.c, is |-> a.s, in |-> a.n, sx |-> ctr.sx, sy |-> ctr.sy, nd |-> ctr.nd]

\* Pixel <<row, col>> of an image, 0 outside it (cv2.BORDER_CONSTANT)
PixelAt(image, row, col) ==
    IF <<row, col>> \in Pixels(image.H, image.W) THEN image.px[<<row, col>>] ELSE 0

\* Nearest integer of v / d (d > 0, v >= 0), a tie going to the even one (cvRound)
RoundDiv(v, d) ==
    LET f == v \div d
        r == v % d
    IN  IF 2 * r < d THEN f ELSE IF 2 * r > d THEN f + 1 ELSE IF f % 2 = 0 THEN f ELSE f + 1

\* cv2.warpAffine(image, R, (W, H)): the destination pixel (x, y) is the bilinear
\* interpolation of the source at R^-1 (x, y), with exact weights
WarpPixel(image, R, row, col) ==
    LET Q == R.in * R.nd
        xs == R.ic * (R.nd * col - R.sx) - R.is * (R.nd * row - R.sy) + R.in * R.sx
        ys == R.is * (R.nd * col - R.sx) + R.ic * (R.nd * row - R.sy) + R.in * R.sy
        x0 == FloorDiv(xs, Q)
        y0 == FloorDiv(ys, Q)
        fx == xs - x0 * Q
        fy == ys - y0 * Q
    IN  IF fx = 0 /\ fy = 0 THEN PixelAt(image, y0, x0)
        ELSE RoundDiv((Q - fx) * (Q - fy) * PixelAt(image, y0, x0)
                      + fx * (Q - fy) * PixelAt(image, y0, x0 + 1)
                      + (Q - fx) * fy * PixelAt(image, y0 + 1, x0)
                      + fx * fy * PixelAt(image, y0 + 1, x0 + 1), Q * Q)

\* apply_rotation; cv2.warpAffine asserts src.cols > 0 && src.rows > 0
apply_rotation(image, rot_matrix) ==
    IF image.H = 0 \/ image.W = 0 THEN [tag |-> "raise", error |-> "cv2.error"]
    ELSE [tag |-> "ok",
          image |-> [H |-> image.H, W |-> image.W,
                     px |-> [p \in Pixels(image.H, image.W) |->
                               WarpPixel(image, rot_matrix, p[1], p[2])]]]

\* FaceAligner.__call__: the landmarks are updated after the image is warped
FaceAligner(image, landmarks_dict) ==
    LET rotation == calculate_rotation(landmarks_dict)
        R == getRotationMatrix2D(rotation)
        w == apply_rotation(image, R)
    IN  IF w.tag = "raise"
        THEN [tag |-> "raise", error |-> w.error, rotation |-> rotation,
              landmarks |-> landmarks_dict]
        ELSE [tag |-> "ok", aligned_image |-> w.image, rotation |-> rotation,
              landmarks |-> update_landmarks(landmarks_dict, R)]

----------------------------------------------------------------------------
(* LandmarksExtractor                                                      *)
(* A landmark dictionary is a mutable object.  During one call three such  *)
(* objects can be alive: "det", the dictionary the detector returned;      *)
(* "old", the dictionary self.old_state refers to; "est", the copy made    *)
(* on a miss.  heap maps each to its contents, and a reference names one   *)
(* of them ("null" is None), so that two references to one object see      *)
(* each other's updates.                                                   *)

\* The adjustment of a missed frame (lines 386-391), for the dictionary d
VideoAdjustment(d) ==
    LET arr == list_landmarks(d)
    IN  [kind |-> "video",
         mean_x2 |-> MinSeq(Xs(arr)) + MaxSeq(Xs(arr)),
         mean_y2 |-> MinSeq(Ys(arr)) + MaxSeq(Ys(arr))]

\* A variant of FilterActive that drops the test of the flag, so that the
\* filter acts in either mode
FilterAlwaysActive(self_video_mode) == TRUE

\* if self.video_mode: the filter acts in video mode only
FilterActive(self_video_mode) == self_video_mode

\* A variant of LandmarksExtractor that keeps the detected dictionary itself
\* (self.old_state = landmarks, without copy), so that landmarks and old_state
\* refer to one object
LandmarksExtractorNoCopy(self_video_mode, self_old_state, detection) ==
    LET heap == [det |-> detection, old |-> self_old_state, est |-> None]
        old_ref == IF self_old_state = None THEN "null" ELSE "old"
    IN  IF FilterActive(self_video_mode)
        THEN IF detection = None
             THEN IF old_ref = "null"
                  THEN [tag |-> "raise", error |-> "AttributeError", heap |-> heap,
                        landmarks |-> "null", old_state |-> old_ref]
                  ELSE [tag |-> "ok", error |-> "",
                        heap |-> [heap EXCEPT !.est =
                                    Some(update_landmarks(Get(heap[old_ref]),
                                                          VideoAdjustment(Get(heap[old_ref]))))],
                        landmarks |-> "est", old_state |-> old_ref]
             ELSE [tag |-> "ok", error |-> "",
                   heap |-> [heap EXCEPT !.old = heap.det],
                   landmarks |-> "old", old_state |-> "old"]
        ELSE [tag |-> "ok", error |-> "", heap |-> heap,
              landmarks |-> IF detection = None THEN "null" ELSE "det",
              old_state |-> old_ref]

\* LandmarksExtractor.__call__; detection is face_recognition.face_landmarks(image)
\* reduced to its first face, or None when the list is empty
LandmarksExtractor(self_video_mode, self_old_state, detection) ==
    LET heap == [det |-> detection, old |-> self_old_state, est |-> None]
        old_ref == IF self_old_state = None THEN "null" ELSE "old"
    IN  IF FilterActive(self_video_mode)
        THEN IF detection = None
             THEN IF old_ref = "null"
                  THEN \* None has no attribute copy
                       [tag |-> "raise", error |-> "AttributeError", heap |-> heap,
                        landmarks |-> "null", old_state |-> old_ref]
                  ELSE [tag |-> "ok", error |-> "",
                        \* landmarks = self.old_state.copy(), then updated in place
                        heap |-> [heap EXCEPT !.est =
                                    Some(update_landmarks(Get(heap[old_ref]),
                                                          VideoAdjustment(Get(heap[old_ref]))))],
                        landmarks |-> "est", old_state |-> old_ref]
             ELSE [tag |-> "ok", error |-> "",
                   \* self.old_state = landmarks.copy(): a new dictionary
                   heap |-> [heap EXCEPT !.old = heap.det],
                   landmarks |-> "det", old_state |-> "old"]
        ELSE [tag |-> "ok", error |-> "", heap |-> heap,
              landmarks |-> IF detection = None THEN "null" ELSE "det",
              old_state |-> old_ref]

----------------------------------------------------------------------------
(* FaceExtractor                                                           *)

\* np.array(image) of a PIL image, and Image.fromarray(array) of an array: the
\* same pixels, as an array and as an RGB image
np_array(image) == [H |-> image.H, W |-> image.W, px |-> image.px]

Image_fromarray(array) == [mode |-> "RGB", H |-> array.H, W |-> array.W, px |-> array.px]

\* a / b times c / d, in lowest terms
FracTimes(m, c, d) ==
    LET g == Gcd(m[1] * c, m[2] * d)
    IN  <<(m[1] * c) \div g, (m[2] * d) \div g>>

\* FaceExtractor.__init__: margin=0.05, mask_factor=10 by default; the coarse
\* cropper gets margin * 1.05
DefaultMarginNum == 5

DefaultMarginDen == 100

DefaultMaskFactor == 10

SafetyNum == 105

SafetyDen == 100

FaceExtractorInit(margin, mask_factor, mode) ==
    [landmarks_extractor |-> [video_mode |-> mode, old_state |-> None],
     face_cropper_coarse |-> [margin |-> FracTimes(margin, SafetyNum, SafetyDen)],
     face_masker |-> [sharp_edge |-> TRUE, morphing |-> mask_factor],
     face_cropper_fine |-> [margin |-> FracTimes(margin, 1, 1)]]

\* The eleven fields of the bundle, in the order of the recordclass
BundleFields ==
    <<"image_original", "image_cropped", "bounding_box_coarse", "offsets_coarse",
      "size_coarse", "mask", "rotation", "bounding_box_fine", "offsets_fine",
      "size_fine", "landmarks">>

\* ExtractionInformation(...) built from a tuple of the eleven values
ExtractionInformation(values) ==
    [k \in {BundleFields[i] : i \in 1..Len(BundleFields)} |->
       values[CHOOSE i \in 1..Len(BundleFields) : BundleFields[i] = k]]

\* A variant of NoFaceBundle in which original_image = image stands in front
\* of the test for landmarks
NoFaceBundleKeepsImage(image) ==
    ExtractionInformation(<<Some(Image_fromarray(image)), None, None, None, None, None,
                            None, None, None, None, None>>)

\* The bundle of a call that found no face: every local is still None (the
\* image is assigned to original_image inside the if)
NoFaceBundle(image) ==
    ExtractionInformation(<<None, None, None, None, None, None, None, None, None, None, None>>)

\* What a crop stage computed, kept with the call for inspection: the image it
\* was given is H x W, requested is the box before clipping
StageTrace(H, W, r) ==
    [H |-> H, W |-> W, bounding_box |-> r.bounding_box, offsets |-> r.offsets,
     size |-> r.size, requested |-> r.requested, raised |-> r.tag = "raise"]

\* The contents self.old_state has when the call ends
OldStateOf(heap, ref) == IF ref = "null" THEN None ELSE heap[ref]

\* A call that ends in an exception; t holds the locals kept for inspection
Raised(error, stages, heap, old_ref, t) ==
    [tag |-> "raise", error |-> error, extracted_face |-> None,
     extraction_information |-> None, old_state |-> OldStateOf(heap, old_ref),
     stages |-> stages, landmark_stage |-> t[1], coarse |-> t[2], fine |-> t[3]]

\* A call that returns extracted_face, extraction_information
Returned(extracted_face, extraction_information, stages, heap, old_ref, t) ==
    [tag |-> "ok", error |-> "", extracted_face |-> extracted_face,
     extraction_information |-> Some(extraction_information),
     old_state |-> OldStateOf(heap, old_ref),
     stages |-> stages, landmark_stage |-> t[1], coarse |-> t[2], fine |-> t[3]]

\* The steps of FaceExtractor.__call__ in the order of the source, each given
\* what the steps before it computed: le from the landmarks extractor, c from
\* the coarse crop, m from the masker, a from the aligner, f from the fine crop.
\* The stages update the one landmarks dictionary le.landmarks refers to.

\* Lines 106-124: conversions to PIL images, the bundle, the return
AfterFineCrop(self, image, le, c, m, a, f) ==
    LET heap == [le.heap EXCEPT ![le.landmarks] = Some(f.landmarks)]
        t == <<le.heap[le.landmarks], Some(StageTrace(image.H, image.W, c)),
               Some(StageTrace(a.aligned_image.H, a.aligned_image.W, f))>>
    IN  IF f.tag = "raise"
        THEN Raised(f.error, <<"landmarks", "coarse", "mask", "align", "fine">>, heap,
                    le.old_state, t)
        ELSE Returned(Some(Image_fromarray(f.cropped_image)),
                      ExtractionInformation(
                          <<Some(Image_fromarray(image)),
                            Some(Image_fromarray(c.cropped_image)),
                            Some(c.bounding_box), Some(c.offsets), Some(c.size),
                            Some(m.mask), Some(a.rotation),
                            Some(f.bounding_box), Some(f.offsets), Some(f.size),
                            \* landmarks = list_landmarks(landmarks)
                            Some([den |-> f.landmarks.den,
                                  list |-> list_landmarks(Get(heap[le.landmarks]))])>>),
                      <<"landmarks", "coarse", "mask", "align", "fine">>, heap,
                      le.old_state, t)

\* Lines 104-105: extracted_face, ... = self.face_cropper_fine(rotated_image, landmarks)
AfterAlign(self, image, le, c, m, a) ==
    IF a.tag = "raise"
    THEN Raised(a.error, <<"landmarks", "coarse", "mask", "align">>,
                [le.heap EXCEPT ![le.landmarks] = Some(a.landmarks)], le.old_state,
                <<le.heap[le.landmarks], Some(StageTrace(image.H, image.W, c)), None>>)
    ELSE AfterFineCrop(self, image, le, c, m, a,
                       FaceCropperFine(a.aligned_image, a.landmarks,
                                       self.face_cropper_fine.margin))

\* A variant of AfterMask in which the aligner is given the landmarks as the
\* detector returned them, before the shift of the coarse crop
AfterMaskUnshifted(self, image, le, c, m) ==
    AfterAlign(self, image, le, c, m, FaceAligner(m.masked_image, Get(le.heap[le.landmarks])))

\* Line 103: rotated_image, rotation = self.face_aligner(masked_image, landmarks)
AfterMask(self, image, le, c, m) ==
    AfterAlign(self, image, le, c, m, FaceAligner(m.masked_image, c.landmarks))

\* Line 102: masked_image, mask = self.face_masker(cropped_image, landmarks)
AfterCoarseCrop(self, image, le, c) ==
    IF c.tag = "raise"
    THEN Raised(c.error, <<"landmarks", "coarse">>,
                [le.heap EXCEPT ![le.landmarks] = Some(c.landmarks)], le.old_state,
                <<le.heap[le.landmarks], Some(StageTrace(image.H, image.W, c)), None>>)
    ELSE AfterMask(self, image, le, c,
                   FaceMasker(c.cropped_image, c.landmarks, self.face_masker.morphing))

\* Lines 98-101: if landmarks is not None, the coarse crop
AfterLandmarks(self, image, le) ==
    IF le.tag = "raise"
    THEN Raised(le.error, <<"landmarks">>, le.heap, le.old_state, <<None, None, None>>)
    ELSE IF le.landmarks = "null"
    THEN Returned(None, NoFaceBundle(image), <<"landmarks">>, le.heap, le.old_state,
                  <<None, None, None>>)
    ELSE AfterCoarseCrop(self, image, le,
                         FaceCropperCoarse(image, Get(le.heap[le.landmarks]),
                                           self.face_cropper_coarse.margin))

\* FaceExtractor.__call__(image), the detector answering detection for the image
FaceExtractorCall(self, pil_image, detection) ==
    AfterLandmarks(self, np_array(pil_image),
                   LandmarksExtractor(self.landmarks_extractor.video_mode,
                                      self.landmarks_extractor.old_state, detection))

----------------------------------------------------------------------------
(* The inputs of the model: images and the detector's answers              *)

\* The number of points face_recognition.face_landmarks returns per group
\* (the slices of dict_landmarks)
GroupSize ==
    [chin |-> 17, left_eyebrow |-> 5, right_eyebrow |-> 5, nose_bridge |-> 4,
     nose_tip |-> 5, left_eye |-> 6, right_eye |-> 6, top_lip |-> 12, bottom_lip |-> 12]

\* A detected face: the left eye's points at a, the right eye's at b, the chin's
\* alternating between c and d, every other point at c
Face(a, b, c, d) ==
    [den |-> 1,
     pts |-> [f \in Features |->
                [i \in 1..GroupSize[f] |->
                   CASE f = "left_eye" -> a
                     [] f = "right_eye" -> b
                     [] f = "chin" -> IF i % 2 = 1 THEN c ELSE d
                     [] OTHER -> c]]]

\* A decoded W x H image (PIL), every pixel different and not 0
Picture(W, H) ==
    [mode |-> "RGB", H |-> H, W |-> W, px |-> [p \in Pixels(H, W) |-> 1 + p[1] * W + p[2]]]

----------------------------------------------------------------------------
(* The extractor at work: calls of FaceExtractor.__call__ on the frames    *)
(* of the model.                                                           *)

\* The side of the square pictures, and the extent of the tall one
Side == 4

TallW == 3

TallH == 8

Square == Picture(Side, Side)

Tall == Picture(TallW, TallH)

\* The faces the detector finds: upright, lying on its side (eyes one above the
\* other), upside down, collapsed to one point, and small in a corner
Upright == Face(<<1, 1>>, <<2, 1>>, <<1, 2>>, <<2, 3>>)

Sideways == Face(<<1, 1>>, <<1, 2>>, <<2, 2>>, <<2, 1>>)

Reversed == Face(<<2, 1>>, <<1, 1>>, <<1, 2>>, <<2, 2>>)

Collapsed == Face(<<1, 1>>, <<1, 1>>, <<1, 1>>, <<1, 1>>)

Corner == Face(<<0, TallH - 2>>, <<2, TallH - 2>>, <<1, TallH - 2>>, <<1, TallH - 1>>)

\* A frame: an image and the detector's answer for it
Frames ==
    ({Square} \X {None, Some(Upright), Some(Sideways), Some(Reversed), Some(Collapsed)})
    \cup ({Tall} \X {None, Some(Corner), Some(Upright)})

Init ==
    /\ extractor \in {FaceExtractorInit(<<DefaultMarginNum, DefaultMarginDen>>,
                                        DefaultMaskFactor, mode) : mode \in BOOLEAN}
    /\ last = None
    /\ prev = None
    /\ detected = None
    /\ crop = None
    /\ store = None
    /\ stream_hits = None
    /\ stream_last = None
    /\ unit = None
    /\ scene = None

\* extractor(image): the call as a whole.  remember: the call made before this
\* one is kept in prev (single-image mode).
Call(image, detection, remember) ==
    LET video == extractor.landmarks_extractor.video_mode
    IN  /\ video => ~remember
        /\ last' = Some([image |-> image, detection |-> detection,
                         detected_before |-> detected,
                         between |-> (prev # None /\ ~remember),
                         result |-> FaceExtractorCall(extractor, image, detection)])
        \* what the call left in self.landmarks_extractor.old_state
        /\ extractor' = [extractor EXCEPT !.landmarks_extractor.old_state =
                                             Get(last').result.old_state]
        /\ prev' = IF remember THEN last ELSE prev
        /\ detected' = IF video /\ detection # None THEN detection ELSE detected
        /\ UNCHANGED <<crop, store, stream_hits, stream_last, unit, scene>>

Next == \E fr \in Frames, remember \in BOOLEAN : Call(fr[1], fr[2], remember)

Spec == Init /\ [][Next]_vars

----------------------------------------------------------------------------
(* The crop stages on their own: Init draws an image, a landmark           *)
(* dictionary and a margin, the actions apply a stage to them.             *)

\* Images are 1..MaxSide pixels wide and high; landmark coordinates lie up to
\* Reach pixels outside the largest image
MaxSide == 2

Reach == 1

Coords == (-Reach)..(MaxSide + Reach)

\* The faces given to the stages: the eyes at c, every other point at c + d
Spreads == {<<0, 0>>, <<1, 0>>, <<0, 2>>, <<-2, 1>>, <<3, 3>>}

CropFaces ==
    {Face(c, c, <<c[1] + d[1], c[2] + d[2]>>, <<c[1] + d[1], c[2] + d[2]>>) :
        c \in Coords \X Coords, d \in Spreads}

\* margin = 0.05 (the default), 0, -0.25, 0.5, -1.5 and 3
Margins ==
    {<<DefaultMarginNum, DefaultMarginDen>>, <<0, 1>>, <<-1, 4>>, <<1, 2>>, <<-3, 2>>, <<3, 1>>}

CropInputs ==
    [stage : {"coarse", "fine"},
     image : {np_array(Picture(w, h)) : w \in 1..MaxSide, h \in 1..MaxSide},
     landmarks : CropFaces,
     margin : Margins,
     out : {None}]

InitCrop ==
    /\ extractor = FaceExtractorInit(<<DefaultMarginNum, DefaultMarginDen>>,
                                     DefaultMaskFactor, FALSE)
    /\ last = None
    /\ prev = None
    /\ detected = None
    /\ crop \in CropInputs
    /\ store = None
    /\ stream_hits = None
    /\ stream_last = None
    /\ unit = None
    /\ scene = None

\* FaceCropperCoarse(margin)(image, landmarks)
CoarseCrop ==
    /\ crop.stage = "coarse"
    /\ crop.out = None
    /\ crop' = [crop EXCEPT !.out = Some(FaceCropperCoarse(crop.image, crop.landmarks,
                                                           crop.margin))]
    /\ UNCHANGED <<extractor, last, prev, detected, store, stream_hits, stream_last, unit, scene>>

\* FaceCropperFine(margin)(image, landmarks)
FineCrop ==
    /\ crop.stage = "fine"
    /\ crop.out = None
    /\ crop' = [crop EXCEPT !.out = Some(FaceCropperFine(crop.image, crop.landmarks,
                                                         crop.margin))]
    /\ UNCHANGED <<extractor, last, prev, detected, store, stream_hits, stream_last, unit, scene>>

NextCrop == CoarseCrop \/ FineCrop

SpecCrop == InitCrop /\ [][NextCrop]_vars

----------------------------------------------------------------------------
(* Two video streams, each with a LandmarksExtractor(video_mode=True) of   *)
(* its own, calling in any order.                                          *)

Streams == {1, 2}

\* A variant of AttributeSlot for old_state declared in the class body and
\* mutated in place: one slot for every instance
AttributeSlotOfClass(instance) == 1

\* Where the old_state of the extractor object of a stream lives: __init__ sets
\* self.old_state, an attribute of the instance
AttributeSlot(instance) == instance

StreamDetections == {None, Some(Upright), Some(Sideways), Some(Collapsed), Some(Corner)}

InitStreams ==
    /\ extractor = FaceExtractorInit(<<DefaultMarginNum, DefaultMarginDen>>,
                                     DefaultMaskFactor, TRUE)
    /\ last = None
    /\ prev = None
    /\ detected = None
    /\ crop = None
    /\ store = [k \in Streams |-> None]
    /\ stream_hits = [k \in Streams |-> None]
    /\ stream_last = None
    /\ unit = None
    /\ scene = None

\* What a call of LandmarksExtractor.__call__ gives its caller: an exception or
\* the landmarks (None or the dictionary's contents)
Outcome(le) ==
    [tag |-> le.tag, error |-> le.error,
     landmarks |-> IF le.landmarks = "null" THEN None ELSE le.heap[le.landmarks]]

\* The extractor of stream k is called on a frame of that stream
StreamCall(k, detection) ==
    LET le == LandmarksExtractor(TRUE, store[AttributeSlot(k)], detection)
    IN  /\ store' = [store EXCEPT ![AttributeSlot(k)] = OldStateOf(le.heap, le.old_state)]
        /\ stream_last' = Some([stream |-> k, detection |-> detection,
                                hits_before |-> stream_hits[k], outcome |-> Outcome(le)])
        /\ stream_hits' = IF detection = None THEN stream_hits
                          ELSE [stream_hits EXCEPT ![k] = detection]
        /\ UNCHANGED <<extractor, last, prev, detected, crop, unit, scene>>

NextStreams == \E k \in Streams, detection \in StreamDetections : StreamCall(k, detection)

SpecStreams == InitStreams /\ [][NextStreams]_vars


----------------------------------------------------------------------------
(* Outcomes of a FaceExtractor call                                         *)

LastCall == Get(last)

PrevCall == Get(prev)

IsVideo == extractor.landmarks_extractor.video_mode

\* the call returned no face and a bundle whose eleven fields are all None
NoFaceResult(r) ==
    /\ r.tag = "ok"
    /\ r.extracted_face = None
    /\ \A k \in DOMAIN Get(r.extraction_information) : Get(r.extraction_information)[k] = None

\* the call returned a face and a bundle whose eleven fields are all set
FaceFoundResult(r) ==
    /\ r.tag = "ok"
    /\ r.extracted_face # None
    /\ \A k \in DOMAIN Get(r.extraction_information) : Get(r.extraction_information)[k] # None

----------------------------------------------------------------------------
(* C1: a call on an image in which the detector finds no face never raises *)
(* and returns None with an all-None bundle, in single-image mode and in    *)
(* video mode, whatever calls came before.                                  *)
C1_NoFaceReturnsNone ==
    (last # None /\ LastCall.detection = None) => NoFaceResult(LastCall.result)

(* C2: every call that completes is in exactly one of two shapes: a face    *)
(* with all eleven bundle fields set, or no face with all eleven fields     *)
(* None; a partly filled bundle is never returned.                          *)
C2_FaceFoundOrNoFace ==
    (last # None /\ LastCall.result.tag = "ok")
        => (FaceFoundResult(LastCall.result) \/ NoFaceResult(LastCall.result))

\* a call completed with a face, and an earlier one completed without
C2_Witness ==
    /\ last # None /\ prev # None
    /\ FaceFoundResult(LastCall.result)
    /\ NoFaceResult(PrevCall.result)

\* the landmarks are not all one point
Spread(landmarks_dict) == Cardinality(Range(list_landmarks(landmarks_dict))) > 1

(* C3: in video mode a miss that follows at least one successful detection  *)
(* leaves the landmark stage with a landmark set, the estimate computed     *)
(* from the most recent detection, and the call ends with a face and a      *)
(* full bundle.  Stated for detections whose landmarks are not all one      *)
(* point (C10 treats those).                                                *)
C3_VideoMissAfterHit ==
    (/\ last # None
     /\ IsVideo
     /\ LastCall.detection = None
     /\ LastCall.detected_before # None
     /\ Spread(Get(LastCall.detected_before)))
        => /\ LastCall.result.landmark_stage
                = Some(update_landmarks(Get(LastCall.detected_before),
                                        VideoAdjustment(Get(LastCall.detected_before))))
           /\ FaceFoundResult(LastCall.result)

(* C4: in single-image mode two calls with the same image, for which the    *)
(* detector reports the same landmarks, give equal faces and equal bundles, *)
(* whatever was called in between.                                          *)
C4_SingleImageRepeatable ==
    (/\ ~IsVideo
     /\ last # None /\ prev # None
     /\ LastCall.image = PrevCall.image
     /\ LastCall.detection = PrevCall.detection)
        => /\ LastCall.result.tag = PrevCall.result.tag
           /\ LastCall.result.error = PrevCall.result.error
           /\ LastCall.result.extracted_face = PrevCall.result.extracted_face
           /\ LastCall.result.extraction_information = PrevCall.result.extraction_information

\* the same image and landmarks twice with another call in between, both
\* calls ending with a face
C4_Witness ==
    /\ ~IsVideo
    /\ last # None /\ prev # None
    /\ LastCall.image = PrevCall.image
    /\ LastCall.detection = PrevCall.detection
    /\ LastCall.between
    /\ FaceFoundResult(LastCall.result)

(* C5: when video_mode is False, old_state is None after every sequence of  *)
(* calls, whether they found a face or not.                                 *)
C5_SingleImageKeepsNoState ==
    ~IsVideo => extractor.landmarks_extractor.old_state = None

\* single-image mode, a detection has just been processed after another call
C5_Witness ==
    /\ ~IsVideo
    /\ last # None /\ prev # None
    /\ LastCall.detection # None
    /\ FaceFoundResult(LastCall.result)

----------------------------------------------------------------------------
(* Properties of two streams (SpecStreams)                                  *)

(* C6: when each video stream has an extractor instance of its own, every   *)
(* call gives the stream the result it would get if it ran alone, whatever  *)
(* the order in which the streams call: the result of a call is the one     *)
(* LandmarksExtractor computes from that stream's own latest detection.     *)
C6_StreamsIndependent ==
    stream_last # None
        => Get(stream_last).outcome
             = Outcome(LandmarksExtractor(TRUE, Get(stream_last).hits_before,
                                          Get(stream_last).detection))

\* a stream misses after a detection of its own while the other stream's
\* latest detection is a different one, and gets its own estimate
C6_Witness ==
    /\ stream_last # None
    /\ Get(stream_last).detection = None
    /\ Get(stream_last).hits_before # None
    /\ \E k \in Streams : /\ k # Get(stream_last).stream
                          /\ stream_hits[k] # None
                          /\ stream_hits[k] # Get(stream_last).hits_before
    /\ Get(stream_last).outcome.tag = "ok"
    /\ Get(stream_last).outcome.landmarks # None

----------------------------------------------------------------------------
(* Properties of the crop stages (SpecCrop, Spec)                           *)

CropOut == Get(crop.out)

\* offsets.left + (right - left) == offsets.right, and the same for rows
WidthsAgree(bounding_box, offsets) ==
    /\ offsets.left + (bounding_box.right - bounding_box.left) = offsets.right
    /\ offsets.top + (bounding_box.bottom - bounding_box.top) = offsets.bottom

InRange(t) ==
    /\ \A k \in DOMAIN t.offsets : 0 <= t.offsets[k] /\ t.offsets[k] <= t.size
    /\ 0 <= t.bounding_box.left /\ t.bounding_box.left <= t.bounding_box.right
    /\ t.bounding_box.right <= t.W
    /\ 0 <= t.bounding_box.top /\ t.bounding_box.top <= t.bounding_box.bottom
    /\ t.bounding_box.bottom <= t.H

(* C8: in both crop stages, for every landmark set the stage is given, the  *)
(* video-mode estimate included, all offsets lie in [0, size] and           *)
(* 0 <= left <= right <= W, 0 <= top <= bottom <= H.                        *)
C8_BoxAndOffsetsInRange ==
    last # None
        => /\ LastCall.result.coarse # None => InRange(Get(LastCall.result.coarse))
           /\ LastCall.result.fine # None => InRange(Get(LastCall.result.fine))

\* the requested square reaches past all four edges of the image
PastAllEdges(requested, image) ==
    /\ requested.left < 0 /\ requested.right > image.W
    /\ requested.top < 0 /\ requested.bottom > image.H

(* C9: when the requested square reaches past all four edges of the image,  *)
(* the stage returns a size x size image holding the whole source image     *)
(* once, at the calculated offsets, and zeros everywhere else.              *)
C9_WholeImageOnZeros ==
    (crop # None /\ crop.out # None /\ PastAllEdges(CropOut.requested, crop.image))
        => /\ CropOut.tag = "ok"
           /\ CropOut.cropped_image.H = CropOut.size
           /\ CropOut.cropped_image.W = CropOut.size
           /\ CropOut.offsets.bottom - CropOut.offsets.top = crop.image.H
           /\ CropOut.offsets.right - CropOut.offsets.left = crop.image.W
           /\ \A p \in Pixels(CropOut.size, CropOut.size) :
                LET q == <<p[1] - CropOut.offsets.top, p[2] - CropOut.offsets.left>>
                IN  CropOut.cropped_image.px[p]
                      = IF q \in Pixels(crop.image.H, crop.image.W)
                        THEN crop.image.px[q] ELSE 0

\* the coarse stage was asked for a square past all four edges of an image
\* of more than one pixel, and zeros surround the image on every side
C9_Witness ==
    /\ crop # None /\ crop.out # None
    /\ crop.stage = "coarse"
    /\ PastAllEdges(CropOut.requested, crop.image)
    /\ crop.image.H > 1 /\ crop.image.W > 1
    /\ CropOut.tag = "ok"
    /\ CropOut.size >= crop.image.H + 2

(* C10: landmarks that are all one point make the coarse stage signal       *)
(* DegenerateGeometry: it never returns a size of 0 or a 0 x 0 image, and   *)
(* no later stage runs on such a crop.                                      *)
C10_DegenerateSignalled ==
    (last # None /\ LastCall.detection # None /\ ~Spread(Get(LastCall.detection)))
        => /\ LastCall.result.tag = "raise"
           /\ LastCall.result.error = "DegenerateGeometry"
           /\ LastCall.result.stages = <<"landmarks", "coarse">>
           /\ Get(LastCall.result.coarse).size # 0

\* the box lies within the H x W image, its sides in order
Saturated(bounding_box, H, W) ==
    /\ 0 <= bounding_box.left /\ bounding_box.left <= bounding_box.right
    /\ bounding_box.right <= W
    /\ 0 <= bounding_box.top /\ bounding_box.top <= bounding_box.bottom
    /\ bounding_box.bottom <= H

(* C11: no crop stage raises on well-typed input: for every margin (below   *)
(* -1 and large ones included) and every landmark coordinate (negative or   *)
(* beyond the image included) the coarse and the fine cropper return a crop *)
(* of non-negative size whose bounding box is saturated at the image        *)
(* boundary.                                                                *)
C11_CropNeverRaises ==
    (crop # None /\ crop.out # None)
        => /\ CropOut.tag = "ok"
           /\ CropOut.size >= 0
           /\ Saturated(CropOut.bounding_box, crop.image.H, crop.image.W)

----------------------------------------------------------------------------
(* merge_face_image (src/implementation/FaceAnonymizer/Anonymizer.py)       *)
(* A mask is a record [dtype, H, W, px]; a floating-point mask may carry a  *)
(* field den, and its values are then px / den.                             *)

\* numpy broadcasting of one axis: the lengths other than 1 must agree
BroadcastOk(lengths) == Cardinality(lengths \ {1}) <= 1

BroadcastLen(lengths) == IF lengths \ {1} = {} THEN 1 ELSE CHOOSE n \in lengths \ {1} : TRUE

\* The element of a broadcast array at p: an axis of length 1 is repeated
BroadcastAt(array, p) ==
    array.px[<<IF array.H = 1 THEN 0 ELSE p[1], IF array.W = 1 THEN 0 ELSE p[2]>>]

MaskDen(mask) == IF "den" \in DOMAIN mask THEN mask.den ELSE 1

\* np.where(mask[:,:,None], face, image)
np_where(mask, face, image, p) ==
    IF BroadcastAt(mask, p) # 0 THEN BroadcastAt(face, p) ELSE BroadcastAt(image, p)

\* (mask[:,:,None] * face + (1-mask[:,:,None]) * image).astype(np.uint8), for
\* mask values in [0, 1]: the fraction is cut off
Blend(mask, face, image, p) ==
    (BroadcastAt(mask, p) * BroadcastAt(face, p)
       + (MaskDen(mask) - BroadcastAt(mask, p)) * BroadcastAt(image, p)) \div MaskDen(mask)

\* np.bool == mask.dtype
IsBoolMask(dtype) == dtype = "bool"

\* np.float == mask.dtype: np.float is Python's float, the dtype float64
IsFloatMask(dtype) == dtype = "float64"

\* The arrays of both branches, given the converted arguments
MergedArray(face, image, mask, blend) ==
    LET H == BroadcastLen({mask.H, face.H, image.H})
        W == BroadcastLen({mask.W, face.W, image.W})
    IN  IF ~(BroadcastOk({mask.H, face.H, image.H}) /\ BroadcastOk({mask.W, face.W, image.W}))
        THEN [tag |-> "raise", error |-> "ValueError"]
        ELSE [tag |-> "ok",
              image |-> Image_fromarray(
                  [H |-> H, W |-> W,
                   px |-> [p \in Pixels(H, W) |->
                             IF blend THEN Blend(mask, face, image, p)
                             ELSE np_where(mask, face, image, p)]])]

\* merge_face_image(face, image, mask): masked_image is assigned in the two
\* ifs only, so with any other dtype Image.fromarray(masked_image) reads a
\* local that was never bound
merge_face_image(face, image, mask) ==
    IF IsBoolMask(mask.dtype) THEN MergedArray(np_array(face), np_array(image), mask, FALSE)
    ELSE IF IsFloatMask(mask.dtype)
    THEN MergedArray(np_array(face), np_array(image), mask, TRUE)
    ELSE [tag |-> "raise", error |-> "UnboundLocalError"]

----------------------------------------------------------------------------
(* Direct calls of single functions on drawn arguments                      *)

\* The shapes <<H, W>> of the arrays given to merge_face_image
MergeShapes == {<<1, 1>>, <<1, 2>>, <<2, 1>>}

\* Pixel values: black, white and an odd value in between
PixelValues == {0, 101, 255}

Arrays(shape, values) ==
    {[H |-> shape[1], W |-> shape[2], px |-> f] : f \in [Pixels(shape[1], shape[2]) -> values]}

\* Masks of the dtypes bool, float64 (values 0, 0.5, 1), float32 and uint8
Masks(shape) ==
    {[dtype |-> "bool"] @@ a : a \in Arrays(shape, {0, 1})}
    \cup {[dtype |-> t, den |-> 2] @@ a : a \in Arrays(shape, {0, 1, 2}), t \in {"float64", "float32"}}
    \cup {[dtype |-> "uint8"] @@ a : a \in Arrays(shape, {0, 1})}

\* face, image and mask of one shape, and a face of another shape than the
\* image and the mask
MergeInputs ==
    {[op |-> "merge", face |-> Image_fromarray(f), image |-> Image_fromarray(i), mask |-> m,
      out |-> None] :
        f \in Arrays(<<1, 1>>, PixelValues) \cup Arrays(<<1, 2>>, PixelValues),
        i \in Arrays(<<1, 2>>, PixelValues), m \in Masks(<<1, 2>>)}
    \cup {[op |-> "merge", face |-> Image_fromarray(f), image |-> Image_fromarray(i),
           mask |-> m, out |-> None] :
            f \in Arrays(<<1, 2>>, {101}) \cup Arrays(<<2, 1>>, PixelValues),
            i \in Arrays(<<2, 1>>, PixelValues), m \in Masks(<<2, 1>>)}

\* The values of morphing tried on the masker, and the side of its images
Morphings == {-100, -50, -10, 0, 10, 50, 100}

MaskSide == 4

\* A face whose hull covers all columns of the image but the last
Broad == Face(<<0, 0>>, <<MaskSide - 2, 0>>, <<0, MaskSide - 1>>, <<MaskSide - 2, MaskSide - 1>>)

\* calculate_mask on one image and one landmark set with two values of morphing
MaskInputs ==
    [op : {"mask"}, image : {zeros(MaskSide, MaskSide), zeros(MaskSide - 1, MaskSide)},
     landmarks : CropFaces \cup {Upright, Sideways, Reversed, Collapsed, Broad},
     m1 : Morphings, m2 : Morphings, out : {None}]

\* The eye positions tried on the aligner: the vector between the eyes is
\* zero or parallel to an axis, so that its length is an integer
EyePairs ==
    {e \in ((0..Reach + 1) \X (0..Reach + 1)) \X ((0..Reach + 1) \X (0..Reach + 1)) :
        e[1][1] = e[2][1] \/ e[1][2] = e[2][2]}

AlignFaces ==
    {Face(e[1], e[2], c, d) : e \in EyePairs, c \in {<<1, 2>>, <<0, 0>>}, d \in {<<1, 2>>, <<2, 3>>}}

\* FaceAligner on an image and a landmark dictionary
AlignInputs ==
    [op : {"align"}, image : {np_array(Square), np_array(Picture(TallW, TallW - 1))},
     landmarks : AlignFaces, out : {None}]

\* The lengths of the landmark lists tried: the end of the last slice of
\* dict_landmarks, and four points fewer
SliceEnd == 72

ListLengths == {SliceEnd - 4, SliceEnd}

\* Lists of points: all different, repeating, and all the same
LandmarkLists ==
    UNION {{[i \in 1..n |-> <<i, 0>>], [i \in 1..n |-> <<i % 3, i % 2>>], [i \in 1..n |-> <<1, 1>>]} :
             n \in ListLengths}

\* Orders in which the nine keys can have been inserted: that of facial_features,
\* its reverse, and two exchanges of neighbouring keys
KeyOrders ==
    {facial_features,
     [i \in 1..Len(facial_features) |-> facial_features[Len(facial_features) + 1 - i]],
     <<"left_eyebrow", "chin", "right_eyebrow", "nose_bridge", "nose_tip",
       "left_eye", "right_eye", "top_lip", "bottom_lip">>,
     <<"chin", "left_eyebrow", "right_eyebrow", "nose_bridge", "nose_tip",
       "right_eye", "left_eye", "top_lip", "bottom_lip">>}

\* Dictionaries with the group sizes of the detector, their keys in some order
KeyedDicts ==
    {[den |-> 1, pts |-> d.pts, keys |-> k] :
        d \in {dict_landmarks(l) : l \in {m \in LandmarkLists : Len(m) = SliceEnd}}
              \cup {Upright, Sideways},
        k \in KeyOrders}

ListInputs ==
    [op : {"flatten"}, landmarks : KeyedDicts, out : {None}]
    \cup [op : {"unflatten"}, list : LandmarkLists, out : {None}]

\* The image heights tried on the size of the structuring element; up to this
\* height abs(morphing) / 100 * H in floating point has the integer part of
\* the exact product
MaxHeight == 12

\* k_size for a value of morphing and an image height
KernelInputs ==
    [op : {"kernel"}, morphing : Morphings \cup {-75, -25, 25, 75}, H : 1..MaxHeight,
     out : {None}]

\* calculate_mask on one image and one landmark set with one value of morphing
ShapeInputs ==
    [op : {"shape"}, image : {zeros(MaskSide, MaskSide), zeros(MaskSide - 1, MaskSide)},
     landmarks : CropFaces \cup {Upright, Sideways, Reversed, Collapsed, Broad},
     morphing : Morphings, out : {None}]

\* update_landmarks on the dictionary "det" with one of the transformations of
\* the pipeline: the shift of a crop by (dx, dy), the rotation of the aligner
\* and the adjustment of a missed frame.  "old" is a second dictionary, the
\* copy a video-mode extractor keeps.
\* A face with the chin points spread along a row, so that no two are equal
Staggered(face) ==
    [den |-> face.den,
     pts |-> [face.pts EXCEPT !["chin"] =
                [i \in 1..Len(face.pts["chin"]) |->
                   <<face.pts["chin"][i][1] + i, face.pts["chin"][i][2]>>]]]

RemapInputs ==
    [op : {"remap"}, kind : {"shift", "affine", "video"},
     dx : {-1, 0, 2}, dy : {-1, 0, 2},
     heap : {[det |-> Staggered(f), old |-> Staggered(f)] : f \in AlignFaces}, out : {None}]

\* The transformation of a remap input, as the stage of that kind builds it
RemapTransformation(u) ==
    CASE u.kind = "shift" -> [kind |-> "shift", dx |-> u.dx, dy |-> u.dy]
      [] u.kind = "affine" -> getRotationMatrix2D(calculate_rotation(u.heap.det))
      [] u.kind = "video" -> VideoAdjustment(u.heap.det)

UnitInputs ==
    MergeInputs \cup MaskInputs \cup AlignInputs \cup ListInputs \cup KernelInputs
    \cup ShapeInputs \cup RemapInputs

InitUnit ==
    /\ extractor = FaceExtractorInit(<<DefaultMarginNum, DefaultMarginDen>>,
                                     DefaultMaskFactor, FALSE)
    /\ last = None
    /\ prev = None
    /\ detected = None
    /\ crop = None
    /\ store = None
    /\ stream_hits = None
    /\ stream_last = None
    /\ unit \in UnitInputs
    /\ scene = None

\* merge_face_image(face, image, mask)
Merge ==
    /\ unit.op = "merge"
    /\ unit.out = None
    /\ unit' = [unit EXCEPT !.out = Some(merge_face_image(unit.face, unit.image, unit.mask))]
    /\ UNCHANGED <<extractor, last, prev, detected, crop, store, stream_hits, stream_last, scene>>

\* The number of non-zero pixels of a mask
CountNonZero(mask) == Cardinality({p \in DOMAIN mask.px : mask.px[p] # 0})

\* FaceMasker(morphing=m1).calculate_mask and FaceMasker(morphing=m2).calculate_mask
Mask ==
    /\ unit.op = "mask"
    /\ unit.out = None
    /\ unit' = [unit EXCEPT !.out =
                  Some([count1 |-> CountNonZero(calculate_mask(unit.image, unit.landmarks, unit.m1)),
                        count2 |-> CountNonZero(calculate_mask(unit.image, unit.landmarks, unit.m2))])]
    /\ UNCHANGED <<extractor, last, prev, detected, crop, store, stream_hits, stream_last, scene>>

\* FaceAligner.__call__
Align ==
    /\ unit.op = "align"
    /\ unit.out = None
    /\ unit' = [unit EXCEPT !.out = Some(FaceAligner(unit.image, unit.landmarks))]
    /\ UNCHANGED <<extractor, last, prev, detected, crop, store, stream_hits, stream_last, scene>>

\* list_landmarks, and dict_landmarks of its result
Flatten ==
    /\ unit.op = "flatten"
    /\ unit.out = None
    /\ unit' = [unit EXCEPT !.out =
                  Some([list |-> list_landmarks(unit.landmarks),
                        back |-> dict_landmarks(list_landmarks(unit.landmarks))])]
    /\ UNCHANGED <<extractor, last, prev, detected, crop, store, stream_hits, stream_last, scene>>

\* dict_landmarks, and list_landmarks of its result
Unflatten ==
    /\ unit.op = "unflatten"
    /\ unit.out = None
    /\ unit' = [unit EXCEPT !.out =
                  Some([dict |-> dict_landmarks(unit.list),
                        back |-> list_landmarks(dict_landmarks(unit.list))])]
    /\ UNCHANGED <<extractor, last, prev, detected, crop, store, stream_hits, stream_last, scene>>

\* Lines 553-554 of calculate_mask: k_size
Kernel ==
    /\ unit.op = "kernel"
    /\ unit.out = None
    /\ unit' = [unit EXCEPT !.out = Some([k_size |-> KernelSize(unit.morphing, unit.H)])]
    /\ UNCHANGED <<extractor, last, prev, detected, crop, store, stream_hits, stream_last, scene>>

\* FaceMasker(morphing).calculate_mask, kept with the filled convex hull it
\* started from (line 551)
Shape ==
    /\ unit.op = "shape"
    /\ unit.out = None
    /\ unit' = [unit EXCEPT !.out =
                  Some([mask |-> calculate_mask(unit.image, unit.landmarks, unit.morphing),
                        hull |-> HullPixels(list_landmarks(unit.landmarks), unit.landmarks.den,
                                            unit.image.H, unit.image.W)])]
    /\ UNCHANGED <<extractor, last, prev, detected, crop, store, stream_hits, stream_last, scene>>

\* update_landmarks(landmarks_dict, transformation): landmarks_dict[feature] =
\* landmarks rebinds the groups of the dictionary it was given, here "det"
Remap ==
    /\ unit.op = "remap"
    /\ unit.out = None
    /\ unit' = [unit EXCEPT !.out =
                  Some([transformation |-> RemapTransformation(unit),
                        heap |-> [unit.heap EXCEPT !.det =
                                    update_landmarks(unit.heap.det, RemapTransformation(unit))]])]
    /\ UNCHANGED <<extractor, last, prev, detected, crop, store, stream_hits, stream_last, scene>>

NextUnit == Merge \/ Mask \/ Align \/ Flatten \/ Unflatten \/ Kernel \/ Shape \/ Remap

SpecUnit == InitUnit /\ [][NextUnit]_vars

----------------------------------------------------------------------------
(* Properties of merge_face_image (SpecUnit)                                *)

UnitOut == Get(unit.out)

\* a merge of three arrays of one shape has been made
Merged ==
    /\ unit # None /\ unit.op = "merge" /\ unit.out # None
    /\ unit.face.H = unit.image.H /\ unit.face.W = unit.image.W
    /\ unit.mask.H = unit.image.H /\ unit.mask.W = unit.image.W

(* C13: merge_face_image returns, for a boolean mask, the pixel of face     *)
(* where the mask is True and the pixel of image where it is False, and,    *)
(* for a floating-point mask, mask*face + (1-mask)*image cast to 8 bits.    *)
C13_MergeSelectsOrBlends ==
    Merged =>
        /\ unit.mask.dtype = "bool" =>
              /\ UnitOut.tag = "ok"
              /\ \A p \in Pixels(unit.image.H, unit.image.W) :
                    UnitOut.image.px[p] = IF unit.mask.px[p] = 1 THEN unit.face.px[p]
                                          ELSE unit.image.px[p]
        /\ unit.mask.dtype \in {"float64", "float32"} =>
              /\ UnitOut.tag = "ok"
              /\ \A p \in Pixels(unit.image.H, unit.image.W) :
                    UnitOut.image.px[p]
                      = (unit.mask.px[p] * unit.face.px[p]
                           + (unit.mask.den - unit.mask.px[p]) * unit.image.px[p])
                        \div unit.mask.den

(* C14: given a mask whose kind is neither boolean nor floating-point, the  *)
(* compositor signals InvalidMaskType and returns no image.                 *)
C14_InvalidMaskTypeSignalled ==
    (unit # None /\ unit.op = "merge" /\ unit.out # None
       /\ unit.mask.dtype \notin {"bool", "float64", "float32"})
        => /\ UnitOut.tag = "raise"
           /\ UnitOut.error = "InvalidMaskType"

----------------------------------------------------------------------------
(* Callers of the extractor: the round trip through merge_face_image and    *)
(* Anonymizer.__call__ (src/implementation/FaceAnonymizer/Anonymizer.py).   *)
(* Anonymizer.__init__ passes FaceExtractor the keywords padding, alignment *)
(* and mask, which FaceExtractor.__init__ does not take; __call__ is        *)
(* modelled for an object whose extractor attribute is a FaceExtractor.     *)

\* The frames given to the callers: small pictures with the faces of the crop
\* stages, and the frames of the extractor
SceneFrames ==
    {<<Picture(w, h), d>> : w \in 1..MaxSide, h \in 1..MaxSide,
                            d \in {None} \cup {Some(f) : f \in CropFaces}}
    \cup Frames

\* extracted_face, extraction_information = extractor(image), then
\* merge_face_image(extracted_face, image_cropped, mask): r is what the
\* extractor call gave
RoundTrip(image, detection, r) ==
    [kind |-> "roundtrip", image |-> image, detection |-> detection, extraction |-> r,
     out |-> IF r.tag = "raise" THEN [tag |-> "raise", error |-> r.error]
             ELSE IF r.extracted_face = None THEN [tag |-> "no face"]
             ELSE merge_face_image(Get(r.extracted_face),
                                   Get(Get(r.extraction_information).image_cropped),
                                   Get(Get(r.extraction_information).mask))]

\* getattr(obj, name) succeeds: the extractor returns a tuple, which has none
\* of the attributes of the bundle
HasAttribute(type, name) ==
    type = "ExtractionInformation" /\ name \in Range(BundleFields)

\* Anonymizer.__call__ from line 36 on; r is what self.extractor(image) gave.
\* reads lists the attributes read from the result.
AnonymizerAfterExtract(image, detection, r) ==
    [kind |-> "anonymize", image |-> image, detection |-> detection, extraction |-> r,
     out |-> IF r.tag = "raise"
             THEN [tag |-> "raise", error |-> r.error, reads |-> <<>>,
                   model_called |-> FALSE, merge_called |-> FALSE]
             ELSE IF ~HasAttribute("tuple", "image")
             THEN \* extracted_information.image.resize(...)
                  [tag |-> "raise", error |-> "AttributeError", reads |-> <<"image">>,
                   model_called |-> FALSE, merge_called |-> FALSE]
             ELSE [tag |-> "ok", error |-> "",
                   reads |-> <<"image", "image", "image_unmasked", "mask">>,
                   model_called |-> TRUE, merge_called |-> TRUE]]

InitScene ==
    /\ extractor = FaceExtractorInit(<<DefaultMarginNum, DefaultMarginDen>>,
                                     DefaultMaskFactor, FALSE)
    /\ last = None
    /\ prev = None
    /\ detected = None
    /\ crop = None
    /\ store = None
    /\ stream_hits = None
    /\ stream_last = None
    /\ unit = None
    /\ scene = None

\* The values of n that extract_landmarks knows
SubsetSizes == {5, 10, 28}

\* The uses of the landmarks of a bundle: dict_landmarks, extract_landmarks for
\* each n and normalize_landmarks; r is what the extractor call gave
LandmarkUses(image, detection, r) ==
    [kind |-> "landmarks", image |-> image, detection |-> detection, extraction |-> r,
     out |-> IF r.tag = "raise" THEN [tag |-> "raise", error |-> r.error]
             ELSE IF Get(r.extraction_information).landmarks = None THEN [tag |-> "no face"]
             ELSE [tag |-> "ok",
                   groups |-> dict_landmarks(Get(Get(r.extraction_information).landmarks).list),
                   subsets |-> [n \in SubsetSizes |->
                                  extract_landmarks(
                                      Get(Get(r.extraction_information).landmarks).list, n)],
                   normalized |-> normalize_landmarks(Get(r.extraction_information))]]

\* The extractor in single-image mode keeps no state, so extractor is unchanged
\* and one use per behaviour shows them all
RoundTripCall(image, detection) ==
    /\ scene = None
    /\ scene' = Some(RoundTrip(image, detection,
                               FaceExtractorCall(extractor, image, detection)))
    /\ UNCHANGED <<extractor, last, prev, detected, crop, store, stream_hits, stream_last, unit>>

\* Anonymizer.__call__(image)
AnonymizerCall(image, detection) ==
    /\ scene = None
    /\ scene' = Some(AnonymizerAfterExtract(image, detection,
                                            FaceExtractorCall(extractor, image, detection)))
    /\ UNCHANGED <<extractor, last, prev, detected, crop, store, stream_hits, stream_last, unit>>

\* extractor(image), then the landmark functions on the bundle
LandmarksCall(image, detection) ==
    /\ scene = None
    /\ scene' = Some(LandmarkUses(image, detection,
                                  FaceExtractorCall(extractor, image, detection)))
    /\ UNCHANGED <<extractor, last, prev, detected, crop, store, stream_hits, stream_last, unit>>

NextScene ==
    \/ \E fr \in SceneFrames : RoundTripCall(fr[1], fr[2])
    \/ \E fr \in SceneFrames : AnonymizerCall(fr[1], fr[2])
    \/ \E fr \in SceneFrames : LandmarksCall(fr[1], fr[2])

SpecScene == InitScene /\ [][NextScene]_vars

----------------------------------------------------------------------------
(* Properties of the callers (SpecScene)                                    *)

Scene == Get(scene)

\* every landmark is a pixel of the image
InFrame(landmarks_dict, image) ==
    \A q \in Range(list_landmarks(landmarks_dict)) :
        /\ 0 <= q[1] /\ q[1] < image.W * landmarks_dict.den
        /\ 0 <= q[2] /\ q[2] < image.H * landmarks_dict.den

(* C12: for an image whose landmarks lie fully inside the frame, extraction *)
(* followed by merge_face_image(extracted face, image_cropped, mask)        *)
(* succeeds and returns an image equal to image_cropped at every pixel      *)
(* where the mask is not zero.  Stated for the extractions that returned a  *)
(* face and a full bundle.                                                  *)
C12_RoundTripReproducesCrop ==
    (/\ scene # None /\ Scene.kind = "roundtrip"
     /\ Scene.detection # None
     /\ InFrame(Get(Scene.detection), Scene.image)
     /\ FaceFoundResult(Scene.extraction))
        => /\ Scene.out.tag = "ok"
           /\ \A p \in DOMAIN Get(Get(Scene.extraction.extraction_information).mask).px :
                Get(Get(Scene.extraction.extraction_information).mask).px[p] # 0
                  => Scene.out.image.px[p]
                       = Get(Get(Scene.extraction.extraction_information).image_cropped).px[p]

(* C15: when the extractor reports no face, Anonymizer.__call__ reads no    *)
(* attribute of the extracted face or of the bundle and calls neither the   *)
(* model nor merge_face_image.                                              *)
C15_AnonymizerChecksNoFace ==
    (scene # None /\ Scene.kind = "anonymize" /\ NoFaceResult(Scene.extraction))
        => /\ Scene.out.reads = <<>>
           /\ ~Scene.out.model_called
           /\ ~Scene.out.merge_called

----------------------------------------------------------------------------
(* Properties of the masker, the aligner and the landmark lists (SpecUnit)  *)

(* C16: for a fixed image size and a fixed landmark set the number of       *)
(* non-zero pixels of the sharp mask does not decrease when morphing grows: *)
(* m1 <= m2 implies count(mask(m1)) <= count(mask(m2)).                     *)
C16_MaskMonotone ==
    (unit # None /\ unit.op = "mask" /\ unit.out # None /\ unit.m1 <= unit.m2)
        => UnitOut.count1 <= UnitOut.count2

\* an erosion and a dilation with kernels larger than one pixel, the first
\* mask not empty and the second strictly larger
C16_Witness ==
    /\ unit # None /\ unit.op = "mask" /\ unit.out # None
    /\ unit.m1 < 0 /\ unit.m2 > 0
    /\ KernelSize(unit.m1, unit.image.H) > 1
    /\ KernelSize(unit.m2, unit.image.H) > 1
    /\ 0 < UnitOut.count1
    /\ UnitOut.count1 < UnitOut.count2

\* The vector from the mean of the left_eye points to the mean of the right_eye
\* points, times the number of points of both groups
EyeDx(landmarks_dict) ==
    SumSeq(Xs(landmarks_dict.pts["right_eye"])) * Len(landmarks_dict.pts["left_eye"])
    - SumSeq(Xs(landmarks_dict.pts["left_eye"])) * Len(landmarks_dict.pts["right_eye"])

EyeDy(landmarks_dict) ==
    SumSeq(Ys(landmarks_dict.pts["right_eye"])) * Len(landmarks_dict.pts["left_eye"])
    - SumSeq(Ys(landmarks_dict.pts["left_eye"])) * Len(landmarks_dict.pts["right_eye"])

Aligned == unit # None /\ unit.op = "align" /\ unit.out # None

\* angle 0, and the image and every landmark as they were handed in
AlignedUnchanged ==
    /\ UnitOut.tag = "ok"
    /\ UnitOut.rotation.angle = [c |-> 1, s |-> 0, n |-> 1]
    /\ UnitOut.aligned_image = unit.image
    /\ UnitOut.landmarks = unit.landmarks

(* C17, as amended: whenever the eye means have the same y coordinate and   *)
(* the right eye is not to the left of the left eye (dy = 0, dx >= 0),      *)
(* FaceAligner records angle 0 and returns the image and every landmark     *)
(* unchanged.                                                               *)
C17_LevelForwardEyesUnchanged ==
    (Aligned /\ EyeDy(unit.landmarks) = 0 /\ EyeDx(unit.landmarks) >= 0) => AlignedUnchanged

\* level eyes a positive distance apart, aligned
C17_Witness ==
    /\ Aligned
    /\ EyeDy(unit.landmarks) = 0
    /\ EyeDx(unit.landmarks) > 0
    /\ UnitOut.tag = "ok"

(* C17 as stated: dy = 0 alone implies angle 0 and an unchanged image and   *)
(* unchanged landmarks.                                                     *)
C17_LevelEyesUnchanged ==
    (Aligned /\ EyeDy(unit.landmarks) = 0) => AlignedUnchanged

\* The points of the nine groups in the order of facial_features
CanonicalList(landmarks_dict) ==
    landmarks_dict.pts["chin"] \o landmarks_dict.pts["left_eyebrow"]
    \o landmarks_dict.pts["right_eyebrow"] \o landmarks_dict.pts["nose_bridge"]
    \o landmarks_dict.pts["nose_tip"] \o landmarks_dict.pts["left_eye"]
    \o landmarks_dict.pts["right_eye"] \o landmarks_dict.pts["top_lip"]
    \o landmarks_dict.pts["bottom_lip"]

(* C18: list_landmarks returns the groups concatenated in the canonical     *)
(* order whatever the order of insertion of the keys, and dict_landmarks is *)
(* its inverse: dict_landmarks(list_landmarks(d)) == d for every mapping d  *)
(* with the fixed group sizes, list_landmarks(dict_landmarks(l)) == l for   *)
(* every list l of the full length.                                         *)
C18_FlattenCanonicalAndInverse ==
    /\ (unit # None /\ unit.op = "flatten" /\ unit.out # None)
          => /\ UnitOut.list = CanonicalList(unit.landmarks)
             /\ \A f \in Features : UnitOut.back.pts[f] = unit.landmarks.pts[f]
    /\ (unit # None /\ unit.op = "unflatten" /\ unit.out # None /\ Len(unit.list) = SliceEnd)
          => UnitOut.back = unit.list

----------------------------------------------------------------------------
(* Properties of the landmarks of a bundle (SpecScene)                      *)

LandmarksUsed ==
    /\ scene # None /\ Scene.kind = "landmarks"
    /\ FaceFoundResult(Scene.extraction)

BundleList == Get(Get(Scene.extraction.extraction_information).landmarks).list

\* The number of points in the groups of a dictionary
TotalPoints(landmarks_dict) ==
    SumSeq([i \in 1..Len(facial_features) |-> Len(landmarks_dict.pts[facial_features[i]])])

\* The list of a bundle has n points, the groups dict_landmarks cuts from it
\* have n points together, and extract_landmarks succeeds for 5, 10 and 28
HoldsPoints(n) ==
    /\ Len(BundleList) = n
    /\ TotalPoints(Scene.out.groups) = n
    /\ \A k \in SubsetSizes : Scene.out.subsets[k].tag = "ok"

(* C19, as amended: a landmark set holds exactly 72 points: the groups of   *)
(* dict_landmarks have 72 points together, the list of a FACE_FOUND bundle  *)
(* has length 72, and every fixed index of extract_5/10/28_landmarks is     *)
(* valid for it.                                                            *)
C19_SeventyTwoPoints == LandmarksUsed => HoldsPoints(SliceEnd)

\* a bundle with a face whose landmarks were cut and subsampled
C19_Witness == LandmarksUsed /\ Scene.out.tag = "ok" /\ Len(Scene.out.subsets[28].points) = 28

(* C19 as stated: the same with 68 points.                                  *)
C19_SixtyEightPoints == LandmarksUsed => HoldsPoints(SliceEnd - 4)

(* C20: for every bundle with a face, every coordinate of the final         *)
(* landmarks lies in [0, size_fine], so normalize_landmarks returns only    *)
(* values in [0, 1].                                                        *)
C20_NormalizedInUnitRange ==
    LandmarksUsed
        => /\ Scene.out.normalized.den > 0
           /\ \A i \in 1..Len(Scene.out.normalized.values) :
                 /\ 0 <= Scene.out.normalized.values[i]
                 /\ Scene.out.normalized.values[i] <= Scene.out.normalized.den

----------------------------------------------------------------------------
(* Properties of the order of the stages (Spec)                             *)

Bundle == Get(LastCall.result.extraction_information)

\* The landmarks of the last call in the frame of the coarse crop: those of the
\* landmark stage, shifted as the coarse crop recorded
CoarseFrame ==
    update_landmarks(Get(LastCall.result.landmark_stage),
                     ShiftOf(Get(LastCall.result.coarse).bounding_box,
                             Get(LastCall.result.coarse).offsets))

\* The landmarks of the coarse frame, rotated as the bundle records and shifted
\* as the fine crop recorded
FineFrame ==
    update_landmarks(update_landmarks(CoarseFrame, getRotationMatrix2D(Get(Bundle.rotation))),
                     ShiftOf(Get(Bundle.bounding_box_fine), Get(Bundle.offsets_fine)))

(* C21: when a face is found the stages run once each in the order coarse   *)
(* crop, mask, align, fine crop, each on the image of the stage before: the *)
(* mask and the rotation are computed from the landmarks in the frame of    *)
(* the coarse crop, the mask has size_coarse x size_coarse pixels, and the  *)
(* landmarks of the bundle are those after the shift of the fine crop.      *)
C21_StagesInOrder ==
    (last # None /\ FaceFoundResult(LastCall.result))
        => /\ LastCall.result.stages = <<"landmarks", "coarse", "mask", "align", "fine">>
           /\ Get(LastCall.result.coarse).H = LastCall.image.H
           /\ Get(LastCall.result.coarse).W = LastCall.image.W
           /\ Get(Bundle.mask) = calculate_mask(np_array(Get(Bundle.image_cropped)), CoarseFrame,
                                                extractor.face_masker.morphing)
           /\ Get(Bundle.mask).H = Get(Bundle.size_coarse)
           /\ Get(Bundle.mask).W = Get(Bundle.size_coarse)
           /\ Get(Bundle.rotation) = calculate_rotation(CoarseFrame)
           /\ Get(LastCall.result.fine).H = Get(Bundle.size_coarse)
           /\ Get(LastCall.result.fine).W = Get(Bundle.size_coarse)
           /\ Get(Bundle.landmarks).den = FineFrame.den
           /\ Get(Bundle.landmarks).list = list_landmarks(FineFrame)

\* a face was found whose coarse crop shifted the landmarks and whose
\* alignment turned them
C21_Witness ==
    /\ last # None /\ FaceFoundResult(LastCall.result)
    /\ CoarseFrame # Get(LastCall.result.landmark_stage)
    /\ Get(Bundle.rotation).angle # [c |-> 1, s |-> 0, n |-> 1]
    /\ Get(Bundle.size_coarse) > 0

----------------------------------------------------------------------------
(* Properties of the geometry of the crops (SpecCrop)                       *)

Cropped == crop # None /\ crop.out # None /\ CropOut.tag = "ok"

\* bounding_box.left - offsets.left and bounding_box.top - offsets.top
DisplacementX == CropOut.bounding_box.left - CropOut.offsets.left

DisplacementY == CropOut.bounding_box.top - CropOut.offsets.top

\* the pixels <<row, col>> of the source image that lie inside the bounding box
BoxPixels ==
    {p \in Pixels(crop.image.H, crop.image.W) :
        /\ CropOut.bounding_box.top <= p[1] /\ p[1] < CropOut.bounding_box.bottom
        /\ CropOut.bounding_box.left <= p[2] /\ p[2] < CropOut.bounding_box.right}

(* C22: in both crop stages every landmark (x, y) becomes                   *)
(* (x - (left - offsets.left), y - (top - offsets.top)), and every source   *)
(* pixel inside the bounding box is found in the cropped image at the       *)
(* coordinates moved by the same displacement.                              *)
C22_SameDisplacement ==
    Cropped
        => /\ CropOut.landmarks.den = crop.landmarks.den
           /\ \A f \in Features : \A i \in 1..Len(crop.landmarks.pts[f]) :
                 CropOut.landmarks.pts[f][i]
                    = <<crop.landmarks.pts[f][i][1] - DisplacementX * crop.landmarks.den,
                        crop.landmarks.pts[f][i][2] - DisplacementY * crop.landmarks.den>>
           /\ \A p \in BoxPixels :
                 /\ <<p[1] - DisplacementY, p[2] - DisplacementX>>
                       \in Pixels(CropOut.size, CropOut.size)
                 /\ CropOut.cropped_image.px[<<p[1] - DisplacementY, p[2] - DisplacementX>>]
                       = crop.image.px[p]

\* a crop that was cut at the left or upper edge of the image and padded there,
\* with more than one source pixel inside the box
C22_Witness ==
    /\ Cropped
    /\ CropOut.requested.left < 0 \/ CropOut.requested.top < 0
    /\ DisplacementX < 0 \/ DisplacementY < 0
    /\ Cardinality(BoxPixels) > 1

\* the height and the width of the box the fine cropper asked for
RequestedHeight == CropOut.requested.bottom - CropOut.requested.top

RequestedWidth == CropOut.requested.right - CropOut.requested.left

\* the part of offsets.left and offsets.top that is padding: the offset less
\* what was cut off at the left or upper edge of the image
PaddingLeft == CropOut.offsets.left - Max(0, -CropOut.requested.left)

PaddingTop == CropOut.offsets.top - Max(0, -CropOut.requested.top)

FineCropped == crop # None /\ crop.out # None /\ crop.stage = "fine"

(* C23: the fine cropper makes the box a square of side max(height, width)  *)
(* by padding the shorter axis symmetrically: a box wider than tall gets    *)
(* top padding (width - height) div 2, a box taller than wide gets left     *)
(* padding (height - width) div 2.                                          *)
C23_ShorterAxisCentred ==
    FineCropped
        => /\ CropOut.size = Max(RequestedHeight, RequestedWidth)
           /\ RequestedWidth > RequestedHeight
                 => PaddingTop = (RequestedWidth - RequestedHeight) \div 2
           /\ RequestedHeight > RequestedWidth
                 => PaddingLeft = (RequestedHeight - RequestedWidth) \div 2

CoarseCropped == crop # None /\ crop.out # None /\ crop.stage = "coarse"

\* The sums of the coordinates of the landmarks handed to the stage, and their
\* number times the denominator: the centroid is (CentroidX, CentroidY) / CentroidDen
CentroidX == SumSeq(Xs(list_landmarks(crop.landmarks)))

CentroidY == SumSeq(Ys(list_landmarks(crop.landmarks)))

CentroidDen == Len(list_landmarks(crop.landmarks)) * crop.landmarks.den

\* The square of (the largest distance of a landmark from the centroid, times
\* CentroidDen)
FarthestSquared ==
    LET l == list_landmarks(crop.landmarks)
        n == Len(l)
    IN  MaxSeq([i \in 1..n |-> (n * l[i][1] - CentroidX) * (n * l[i][1] - CentroidX)
                               + (n * l[i][2] - CentroidY) * (n * l[i][2] - CentroidY)])

\* 1 + margin = ScalePlus / crop.margin[2]
ScalePlus == crop.margin[2] + crop.margin[1]

\* h is (largest distance) * (1 + margin) cut to an integer towards zero
IsTruncatedHalf(h) ==
    LET m == crop.margin[2] * CentroidDen
        a == Abs(h)
    IN  /\ (h > 0 => ScalePlus > 0) /\ (h < 0 => ScalePlus < 0)
        /\ (a * m) * (a * m) <= FarthestSquared * ScalePlus * ScalePlus
        /\ FarthestSquared * ScalePlus * ScalePlus < ((a + 1) * m) * ((a + 1) * m)

\* the requested box is a square of side size
RequestedSquare ==
    /\ CropOut.requested.right - CropOut.requested.left = CropOut.size
    /\ CropOut.requested.bottom - CropOut.requested.top = CropOut.size

(* C24, as amended: the coarse cropper requests a square whose half-side is *)
(* (largest distance of a landmark from the centroid) x (1 + margin) cut to *)
(* an integer, centred on the centroid with its coordinates rounded down;   *)
(* size is twice the half-side and right - left = bottom - top = size       *)
(* before clipping.                                                         *)
C24_TruncatedHalfSide ==
    CoarseCropped
        => /\ CropOut.size % 2 = 0
           /\ IsTruncatedHalf(CropOut.size \div 2)
           /\ RequestedSquare
           /\ CropOut.requested.left + CropOut.size \div 2 = FloorDiv(CentroidX, CentroidDen)
           /\ CropOut.requested.top + CropOut.size \div 2 = FloorDiv(CentroidY, CentroidDen)

\* a coarse crop with a positive size whose half-side was cut down and whose
\* centroid is not a pixel corner
C24_Witness ==
    /\ CoarseCropped
    /\ CropOut.size > 0
    /\ (CropOut.size * crop.margin[2] * CentroidDen) * (CropOut.size * crop.margin[2] * CentroidDen)
          < 4 * FarthestSquared * ScalePlus * ScalePlus
    /\ CentroidX % CentroidDen # 0

(* C24 as stated: the half-side equals the largest distance x (1 + margin), *)
(* the square is centred on the centroid, size is twice the half-side and   *)
(* right - left = bottom - top = size before clipping.                      *)
C24_ExactHalfSide ==
    CoarseCropped
        => /\ (CropOut.size * crop.margin[2] * CentroidDen)
                 * (CropOut.size * crop.margin[2] * CentroidDen)
                    = 4 * FarthestSquared * ScalePlus * ScalePlus
           /\ RequestedSquare
           /\ (CropOut.requested.left + CropOut.requested.right) * CentroidDen = 2 * CentroidX
           /\ (CropOut.requested.top + CropOut.requested.bottom) * CentroidDen = 2 * CentroidY

----------------------------------------------------------------------------
(* Properties of the landmarks between the stages (Spec)                    *)

\* The landmarks of the last call after the rotation of the aligner, in the
\* frame of the coarse crop
AlignedFrame == update_landmarks(CoarseFrame, getRotationMatrix2D(Get(Bundle.rotation)))

\* every point of the dictionary lies in the square [0, size] x [0, size]
InsideSquare(landmarks_dict, size) ==
    \A q \in Range(list_landmarks(landmarks_dict)) :
        /\ 0 <= q[1] /\ q[1] <= size * landmarks_dict.den
        /\ 0 <= q[2] /\ q[2] <= size * landmarks_dict.den

(* C25: after the coarse crop and the rotation of the aligner, for a margin *)
(* >= 0, every landmark lies inside the coarse square: 0 <= x <= size_coarse *)
(* and 0 <= y <= size_coarse.                                               *)
C25_RotationKeepsLandmarksInside ==
    (last # None /\ FaceFoundResult(LastCall.result))
        => InsideSquare(AlignedFrame, Get(Bundle.size_coarse))

----------------------------------------------------------------------------
(* Properties of the structuring element (SpecUnit)                         *)

KernelSized == unit # None /\ unit.op = "kernel" /\ unit.out # None

(* C26, as amended: the side length of the structuring element is the       *)
(* integer part of |morphing| / 100 x H if that is odd, and one more if it  *)
(* is even: the odd k with 100 (k - 1) <= |morphing| x H < 100 (k + 1).     *)
C26_KernelOddFromIntegerPart ==
    KernelSized
        => /\ UnitOut.k_size % 2 = 1
           /\ 100 * (UnitOut.k_size - 1) <= Abs(unit.morphing) * unit.H
           /\ Abs(unit.morphing) * unit.H < 100 * (UnitOut.k_size + 1)

\* |morphing| x H / 100 has an odd integer part and a fraction
C26_Witness ==
    /\ KernelSized
    /\ ((Abs(unit.morphing) * unit.H) \div 100) % 2 = 1
    /\ (Abs(unit.morphing) * unit.H) % 100 # 0
    /\ UnitOut.k_size > 1

(* C26 as stated: the side length is the smallest odd integer that is       *)
(* >= |morphing| x H / 100.                                                 *)
C26_KernelSmallestOddAbove ==
    KernelSized
        => /\ UnitOut.k_size % 2 = 1
           /\ 100 * UnitOut.k_size >= Abs(unit.morphing) * unit.H
           /\ 100 * (UnitOut.k_size - 2) < Abs(unit.morphing) * unit.H

Shaped == unit # None /\ unit.op = "shape" /\ unit.out # None

\* half the side of the structuring element, rounded down
Radius == KernelSize(unit.morphing, unit.image.H) \div 2

\* q lies on the cross centred on p: in its row or its column, at most Radius away
OnCross(p, q) ==
    \/ q[1] = p[1] /\ Abs(q[2] - p[2]) <= Radius
    \/ q[2] = p[2] /\ Abs(q[1] - p[1]) <= Radius

\* the cells of the k x k window centred on p, inside the image or not
Window(p) == ((p[1] - Radius)..(p[1] + Radius)) \X ((p[2] - Radius)..(p[2] + Radius))

MaskOn(p) == UnitOut.mask.px[p] # 0

(* C27, as amended: the structuring element is the cross of the k x k       *)
(* window (its middle row and middle column): with morphing > 0 a pixel of  *)
(* the sharp mask is non-zero exactly when some pixel of the filled hull    *)
(* lies on the cross centred on it, and with morphing <= 0 exactly when     *)
(* every pixel of the image on that cross lies in the hull.                 *)
C27_CrossElement ==
    Shaped
        => \A p \in Pixels(unit.image.H, unit.image.W) :
              IF unit.morphing > 0
              THEN MaskOn(p) <=> \E q \in UnitOut.hull : OnCross(p, q)
              ELSE MaskOn(p) <=> \A q \in Pixels(unit.image.H, unit.image.W) :
                                    OnCross(p, q) => q \in UnitOut.hull

\* a dilation and an erosion with a kernel of more than one pixel and a hull
\* that is neither empty nor the whole image
C27_Witness ==
    /\ Shaped
    /\ unit.morphing # 0
    /\ Radius > 0
    /\ UnitOut.hull # {}
    /\ UnitOut.hull # Pixels(unit.image.H, unit.image.W)
    /\ \E p \in Pixels(unit.image.H, unit.image.W) : MaskOn(p)

(* C27 as stated: the structuring element is the full k x k square: with    *)
(* morphing > 0 a pixel is non-zero exactly when some pixel of the hull     *)
(* lies in the k x k window centred on it, with morphing < 0 exactly when   *)
(* the whole window lies inside the hull.                                   *)
C27_SquareElement ==
    Shaped
        => \A p \in Pixels(unit.image.H, unit.image.W) :
              /\ unit.morphing > 0 => (MaskOn(p) <=> Window(p) \cap UnitOut.hull # {})
              /\ unit.morphing < 0 => (MaskOn(p) <=> Window(p) \subseteq UnitOut.hull)

----------------------------------------------------------------------------
(* Properties of update_landmarks (SpecUnit)                                *)

Remapped == unit # None /\ unit.op = "remap" /\ unit.out # None

\* The point p over the denominator den is the point q over the denominator e
SamePoint(p, den, q, e) == p[1] * e = q[1] * den /\ p[2] * e = q[2] * den

(* C28: update_landmarks applies the transformation once to every point and *)
(* changes nothing else: the dictionary it was given is the one that holds  *)
(* the result, with the same group names, the same number of points in each *)
(* group and the points in the same order; no other dictionary changes.     *)
C28_RemapInPlace ==
    Remapped
        => /\ DOMAIN UnitOut.heap = DOMAIN unit.heap
           /\ UnitOut.heap.old = unit.heap.old
           /\ DOMAIN UnitOut.heap.det.pts = DOMAIN unit.heap.det.pts
           /\ \A f \in DOMAIN unit.heap.det.pts :
                 /\ Len(UnitOut.heap.det.pts[f]) = Len(unit.heap.det.pts[f])
                 /\ \A i \in 1..Len(unit.heap.det.pts[f]) :
                       SamePoint(UnitOut.heap.det.pts[f][i], UnitOut.heap.det.den,
                                 Transform(UnitOut.transformation, unit.heap.det.pts[f][i],
                                           unit.heap.det.den),
                                 unit.heap.det.den * TransDen(UnitOut.transformation))

\* a rotation that is not the identity on a dictionary whose chin points differ
C28_Witness ==
    /\ Remapped
    /\ unit.kind = "affine"
    /\ UnitOut.transformation.ic # UnitOut.transformation.in
    /\ unit.heap.det.pts["chin"][1] # unit.heap.det.pts["chin"][2]
    /\ UnitOut.heap.det # unit.heap.det

----------------------------------------------------------------------------
(* Properties of the retained landmarks in video mode (Spec)                *)

(* C29: in video mode the retained state equals the landmarks of the most   *)
(* recent successful detection as the detector returned them: only a        *)
(* detection replaces it, a miss and the updates of the stages leave it     *)
(* alone, and every miss returns the estimate computed from it.             *)
C29_RetainedStateIsLastDetection ==
    (last # None /\ IsVideo)
        => /\ extractor.landmarks_extractor.old_state = detected
           /\ LastCall.detection # None => detected = LastCall.detection
           /\ LastCall.detection = None => detected = LastCall.detected_before
           /\ (LastCall.detection = None /\ LastCall.detected_before # None)
                 => LastCall.result.landmark_stage
                       = Some(update_landmarks(Get(LastCall.detected_before),
                                               VideoAdjustment(Get(LastCall.detected_before))))

\* a detection whose landmarks the stages moved, the call returning a face
C29_Witness ==
    /\ last # None /\ IsVideo
    /\ LastCall.detection # None
    /\ FaceFoundResult(LastCall.result)
    /\ Get(Bundle.landmarks).list # list_landmarks(Get(LastCall.detection))
    /\ extractor.landmarks_extractor.old_state = LastCall.detection

\* a video-mode miss after a detection, the landmark stage returning an estimate
MissEstimated ==
    /\ last # None /\ IsVideo
    /\ LastCall.detection = None
    /\ LastCall.detected_before # None
    /\ LastCall.result.landmark_stage # None

\* Twice the centre of the axis-aligned bounding box of a dictionary, times den
BoxCentreX2(landmarks_dict) ==
    MinSeq(Xs(list_landmarks(landmarks_dict))) + MaxSeq(Xs(list_landmarks(landmarks_dict)))

BoxCentreY2(landmarks_dict) ==
    MinSeq(Ys(list_landmarks(landmarks_dict))) + MaxSeq(Ys(list_landmarks(landmarks_dict)))

\* a / d and b / e differ by at most one
WithinOne(a, d, b, e) == Abs(a * e - b * d) <= d * e

(* C30: in video mode the estimate made for a missed frame is centred where *)
(* the retained landmarks were: the centre of its bounding box equals the   *)
(* centre of the bounding box of the retained landmarks, up to the          *)
(* truncation to integers.                                                  *)
C30_EstimateCentredOnPrevious ==
    MissEstimated
        => /\ WithinOne(BoxCentreX2(Get(LastCall.result.landmark_stage)),
                        2 * Get(LastCall.result.landmark_stage).den,
                        BoxCentreX2(Get(LastCall.detected_before)),
                        2 * Get(LastCall.detected_before).den)
           /\ WithinOne(BoxCentreY2(Get(LastCall.result.landmark_stage)),
                        2 * Get(LastCall.result.landmark_stage).den,
                        BoxCentreY2(Get(LastCall.detected_before)),
                        2 * Get(LastCall.detected_before).den)

====
